---- MODULE Spec2Model ----
(***************************************************************************)
(* A model of the DSLX-to-IR converter (xls/dslx/ir_converter.cc): the     *)
(* name mangler, the interpreter-value conversions, and the IrConverter    *)
(* engine (name environment, function builder, per-kind handlers).         *)
(* ResolveType and the type zipper (xls/dslx/type_system/zip_types.cc)     *)
(* are studied one call at a time.                                         *)
(***************************************************************************)
EXTENDS Integers, Sequences, FiniteSets, TLC

VARIABLES
  mg,               \* the MangleDslxName call under study: arguments and result
  cv,               \* the value conversion under study: input and result
  rd,               \* the ResolveType call under study: arguments, position, result
  zp,               \* the ZipTypes call under study: arguments, position, callbacks
  cur,              \* the function this IrConverter instance lowers
  node_to_ir,       \* IrConverter::node_to_ir_
  ops,              \* the nodes appended to function_builder_, in order
  last_expression,  \* IrConverter::last_expression_ (0 is nullptr)
  function_builder, \* IrConverter::function_builder_: <<>> is nullptr, else <<name>>
  constant_deps,    \* IrConverter::constant_deps_
  symbolic_binding_map, \* IrConverter::symbolic_binding_map_
  package,          \* the functions of package_, by name
  res               \* what the last engine call returned, and what it did on the way

vars ==
  <<mg, cv, rd, zp, cur, node_to_ir, ops, last_expression, function_builder,
    constant_deps, symbolic_binding_map, package, res>>

(***************************************************************************)
(* Strings are sequences of one-character strings.                         *)
(***************************************************************************)

RECURSIVE Flatten(_)
Flatten(ss) == IF ss = <<>> THEN <<>> ELSE Head(ss) \o Flatten(Tail(ss))

RECURSIVE StrJoin(_, _)
StrJoin(ss, sep) ==
  IF ss = <<>> THEN <<>>
  ELSE IF Len(ss) = 1 THEN Head(ss)
  ELSE Head(ss) \o sep \o StrJoin(Tail(ss), sep)

StrReplaceAllNoop(s, from, to) == s

\* absl::StrReplaceAll with a single one-character pattern.
StrReplaceAll(s, from, to) == [i \in 1..Len(s) |-> IF s[i] = from THEN to ELSE s[i]]

Digits == <<"0", "1", "2", "3", "4", "5", "6", "7", "8", "9">>

\* The decimal rendering absl::StrJoin / StrFormat give an int64.
RECURSIVE IntToStr(_)
IntToStr(n) ==
  IF n < 0 THEN <<"-">> \o IntToStr(-n)
  ELSE IF n < 10 THEN <<Digits[n + 1]>>
  ELSE IntToStr(n \div 10) \o <<Digits[(n % 10) + 1]>>

(***************************************************************************)
(* Symbolic bindings: (identifier, value) pairs ordered by identifier.     *)
(***************************************************************************)

\* The parametric identifiers of the model, in collation order.
Identifiers == <<"M", "N">>
IdentifierSet == {Identifiers[i] : i \in 1..Len(Identifiers)}

BindingValues == {4, 8, 12}

RECURSIVE SortedItems(_, _)
SortedItems(map, i) ==
  IF i > Len(Identifiers) THEN <<>>
  ELSE (IF Identifiers[i] \in DOMAIN map
          THEN <<[identifier |-> Identifiers[i], value |-> map[Identifiers[i]]]>>
          ELSE <<>>) \o SortedItems(map, i + 1)

\* SymbolicBindings built from a map: its bindings() in identifier order.
SymbolicBindings(map) == SortedItems(map, 1)

\* Every bindings argument a caller can pass: nullptr, or a SymbolicBindings.
NullBindings == [null |-> TRUE, items |-> <<>>]
AllBindings ==
  {NullBindings} \cup
  {[null |-> FALSE, items |-> SymbolicBindings(m)] :
     m \in UNION {[ks -> BindingValues] : ks \in SUBSET IdentifierSet}}

\* absl::btree_set<std::string> iterates in sorted order.
RECURSIVE BtreeSetSeq(_, _)
BtreeSetSeq(keys, i) ==
  IF i > Len(Identifiers) THEN <<>>
  ELSE (IF Identifiers[i] \in keys THEN <<Identifiers[i]>> ELSE <<>>)
       \o BtreeSetSeq(keys, i + 1)

(***************************************************************************)
(* MangleDslxName                                                          *)
(***************************************************************************)

ModuleNames ==
  { <<"a">>, <<"a", ".", "b">>, <<"a", "_", "b">>, <<"a", ".", "b", ".", "c">> }

FunctionNames ==
  { <<"f">>, <<"f", "o", "o">>, <<"f", "_", "_", "4">>, <<"b", "_", "_", "f">> }

SetDifferenceSwapped(a, b) == b \ a

\* absl::c_set_difference(a, b, inserter): the elements of a that are not in b.
SetDifference(a, b) == a \ b

MangleDslxName(function_name, free_keys, module_name, symbolic_bindings) ==
  LET symbolic_bindings_keys ==
        IF symbolic_bindings.null THEN {}
        ELSE {symbolic_bindings.items[i].identifier :
                i \in 1..Len(symbolic_bindings.items)}
      symbolic_bindings_values ==
        IF symbolic_bindings.null THEN <<>>
        ELSE [i \in 1..Len(symbolic_bindings.items) |->
                symbolic_bindings.items[i].value]
      difference == SetDifference(free_keys, symbolic_bindings_keys)
      module_name_ == StrReplaceAll(module_name, ".", "_")
  IN  IF difference # {}
        THEN [status |-> "InvalidArgument", name |-> <<>>]
      ELSE IF symbolic_bindings_values = <<>>
        THEN [status |-> "OK",
              name |-> <<"_", "_">> \o module_name_ \o <<"_", "_">> \o function_name]
      ELSE [status |-> "OK",
            name |-> <<"_", "_">> \o module_name_ \o <<"_", "_">> \o function_name
                     \o <<"_", "_">>
                     \o StrJoin([i \in 1..Len(symbolic_bindings_values) |->
                                   IntToStr(symbolic_bindings_values[i])], <<"_">>)]

MangleArgs ==
  [function_name : FunctionNames, free_keys : SUBSET IdentifierSet,
   module_name : ModuleNames, symbolic_bindings : AllBindings]

MangleOf(a) ==
  MangleDslxName(a.function_name, a.free_keys, a.module_name, a.symbolic_bindings)

MgIdle == [phase |-> "idle"]

(***************************************************************************)
(* IR values (xls::Value) and interpreter values (InterpValue)             *)
(***************************************************************************)

MaxElems == 2

NoValue == [kind |-> "none", width |-> 0, value |-> 0, elems |-> <<>>]
\* The values of the model stay below 2^30, so widths above 30 truncate nothing.
BitsValue(w, v) ==
  [kind |-> "bits", width |-> w, value |-> IF w > 30 THEN v ELSE v % (2 ^ w),
   elems |-> <<>>]
TupleValue(es) == [kind |-> "tuple", width |-> 0, value |-> 0, elems |-> es]
ArrayValue(es) == [kind |-> "array", width |-> 0, value |-> 0, elems |-> es]
TokenValue == [kind |-> "token", width |-> 0, value |-> 0, elems |-> <<>>]

InterpBits(tag, w, v) == [tag |-> tag, width |-> w, value |-> v, elems |-> <<>>]
InterpTuple(es) == [tag |-> "kTuple", width |-> 0, value |-> 0, elems |-> es]
InterpArray(es) == [tag |-> "kArray", width |-> 0, value |-> 0, elems |-> es]
InterpFunction == [tag |-> "kFunction", width |-> 0, value |-> 0, elems |-> <<>>]
NoInterp == [tag |-> "none", width |-> 0, value |-> 0, elems |-> <<>>]

SeqsUpTo(S, n) == UNION {[1..k -> S] : k \in 0..n}

RECURSIVE ValueType(_)
ValueType(v) ==
  CASE v.kind = "bits" -> <<"bits", v.width>>
    [] v.kind = "tuple" -> <<"tuple", [i \in 1..Len(v.elems) |-> ValueType(v.elems[i])]>>
    [] v.kind = "array" -> <<"array", ValueType(v.elems[1]), Len(v.elems)>>
    [] OTHER -> <<v.kind>>

\* The element lists xls::Value::Array accepts: non-empty, all of one type.
ArrayElems(S) ==
  {es \in SeqsUpTo(S, MaxElems) :
     es # <<>> /\ \A i \in 1..Len(es) : ValueType(es[i]) = ValueType(es[1])}

Values0 == {BitsValue(1, 0), BitsValue(1, 1), TokenValue}
Values1 ==
  Values0 \cup {TupleValue(es) : es \in SeqsUpTo(Values0, MaxElems)}
          \cup {ArrayValue(es) : es \in ArrayElems(Values0)}
Values2 ==
  Values1 \cup {TupleValue(<<e>>) : e \in Values1}
          \cup {ArrayValue(<<e>>) : e \in Values1}

InterpValues0 ==
  {InterpBits("kUBits", 1, 1), InterpBits("kSBits", 1, 1), InterpBits("kEnum", 1, 0),
   InterpFunction}
InterpValues1 ==
  InterpValues0 \cup {InterpTuple(es) : es \in SeqsUpTo(InterpValues0, MaxElems)}
                \cup {InterpArray(es) : es \in SeqsUpTo(InterpValues0, MaxElems) \ {<<>>}}

FirstFailure(rs) == rs[CHOOSE i \in 1..Len(rs) :
                         rs[i].status # "OK" /\ \A j \in 1..(i - 1) : rs[j].status = "OK"]

\* InterpValue::MakeTuple, as ValueToInterpValue calls it for arrays and tuples alike.
InterpMakeTuple(members) == InterpTuple(members)

RECURSIVE InterpValueToValue(_)
InterpValueToValue(iv) ==
  CASE iv.tag \in {"kSBits", "kUBits", "kEnum"} ->
         [status |-> "OK", v |-> BitsValue(iv.width, iv.value)]
    [] iv.tag \in {"kTuple", "kArray"} ->
         LET rs == [i \in 1..Len(iv.elems) |-> InterpValueToValue(iv.elems[i])]
             ir_values == [i \in 1..Len(rs) |-> rs[i].v]
         IN  IF \E i \in 1..Len(rs) : rs[i].status # "OK" THEN FirstFailure(rs)
             ELSE IF iv.tag = "kTuple"
               THEN [status |-> "OK", v |-> TupleValue(ir_values)]
             ELSE [status |-> "OK", v |-> ArrayValue(ir_values)]
    [] OTHER -> [status |-> "InvalidArgument", v |-> NoValue]

RECURSIVE ValueToInterpValue(_)
ValueToInterpValue(v) ==
  CASE v.kind = "bits" ->
         [status |-> "OK", iv |-> InterpBits("kUBits", v.width, v.value)]
    [] v.kind \in {"array", "tuple"} ->
         LET rs == [i \in 1..Len(v.elems) |-> ValueToInterpValue(v.elems[i])]
             members == [i \in 1..Len(rs) |-> rs[i].iv]
         IN  IF \E i \in 1..Len(rs) : rs[i].status # "OK" THEN FirstFailure(rs)
             ELSE [status |-> "OK", iv |-> InterpMakeTuple(members)]
    [] OTHER -> [status |-> "InvalidArgument", iv |-> NoInterp]

CvIdle == [phase |-> "idle"]

\* No ResolveType call and no ZipTypes call is under study.
RdIdle == [phase |-> "idle"]
ZpIdle == [phase |-> "idle"]

(***************************************************************************)
(* The AST the engine consumes: an arena of nodes, keyed by identity (the  *)
(* index), holding the sample functions the engine is run on, and the type *)
(* table (TypeInfo) of the type checker.                                   *)
(***************************************************************************)

Ast ==
  <<
  \* not: fn f(x: u8) -> u8 { !x }
  (*   1 *) [kind |-> "NameDef", identifier |-> "x"],
  (*   2 *) [kind |-> "NameRef", name_def |-> 1],
  (*   3 *) [kind |-> "Unop", op |-> "Invert", operand |-> 2],
  \* ge: fn g(x: s8, y: s8) -> u1 { x >= y }
  (*   4 *) [kind |-> "NameDef", identifier |-> "x"],
  (*   5 *) [kind |-> "NameDef", identifier |-> "y"],
  (*   6 *) [kind |-> "NameRef", name_def |-> 4],
  (*   7 *) [kind |-> "NameRef", name_def |-> 5],
  (*   8 *) [kind |-> "Binop", op |-> "Ge", lhs |-> 6, rhs |-> 7],
  \* let_leaf: fn f() -> u8 { let a = u8:3; -a }
  (*   9 *) [kind |-> "NameDef", identifier |-> "a"],
  (*  10 *) [kind |-> "Number", value |-> 3],
  (*  11 *) [kind |-> "NameRef", name_def |-> 9],
  (*  12 *) [kind |-> "Unop", op |-> "Negate", operand |-> 11],
  (*  13 *) [kind |-> "NameDefTree", leaf |-> 9, nodes |-> <<>>],
  (*  14 *) [kind |-> "Let", name_def_tree |-> 13, rhs |-> 10, body |-> 12],
  \* let_tuple: fn f(t: (u8, (u8, u8))) -> u8 { let (a, (b, c)) = t; b }
  (*  15 *) [kind |-> "NameDef", identifier |-> "t"],
  (*  16 *) [kind |-> "NameRef", name_def |-> 15],
  (*  17 *) [kind |-> "NameDef", identifier |-> "a"],
  (*  18 *) [kind |-> "NameDef", identifier |-> "b"],
  (*  19 *) [kind |-> "NameDef", identifier |-> "c"],
  (*  20 *) [kind |-> "NameDefTree", leaf |-> 17, nodes |-> <<>>],
  (*  21 *) [kind |-> "NameDefTree", leaf |-> 18, nodes |-> <<>>],
  (*  22 *) [kind |-> "NameDefTree", leaf |-> 19, nodes |-> <<>>],
  (*  23 *) [kind |-> "NameDefTree", leaf |-> 0, nodes |-> <<21, 22>>],
  (*  24 *) [kind |-> "NameDefTree", leaf |-> 0, nodes |-> <<20, 23>>],
  (*  25 *) [kind |-> "NameRef", name_def |-> 18],
  (*  26 *) [kind |-> "Let", name_def_tree |-> 24, rhs |-> 16, body |-> 25],
  \* let_deep: fn f(t: ((u8, (u8, u8)), u8, u8)) -> u8 { let ((p, (q, r)), _, s) = t; let z = s; z }
  (*  27 *) [kind |-> "NameDef", identifier |-> "t"],
  (*  28 *) [kind |-> "NameRef", name_def |-> 27],
  (*  29 *) [kind |-> "NameDef", identifier |-> "p"],
  (*  30 *) [kind |-> "NameDef", identifier |-> "q"],
  (*  31 *) [kind |-> "NameDef", identifier |-> "r"],
  (*  32 *) [kind |-> "NameDef", identifier |-> "s"],
  (*  33 *) [kind |-> "NameDefTree", leaf |-> 29, nodes |-> <<>>],
  (*  34 *) [kind |-> "NameDefTree", leaf |-> 30, nodes |-> <<>>],
  (*  35 *) [kind |-> "NameDefTree", leaf |-> 31, nodes |-> <<>>],
  (*  36 *) [kind |-> "NameDefTree", leaf |-> 0, nodes |-> <<34, 35>>],
  (*  37 *) [kind |-> "NameDefTree", leaf |-> 0, nodes |-> <<33, 36>>],
  (*  38 *) [kind |-> "WildcardPattern"],
  (*  39 *) [kind |-> "NameDefTree", leaf |-> 38, nodes |-> <<>>],
  (*  40 *) [kind |-> "NameDefTree", leaf |-> 32, nodes |-> <<>>],
  (*  41 *) [kind |-> "NameDefTree", leaf |-> 0, nodes |-> <<37, 39, 40>>],
  (*  42 *) [kind |-> "NameDef", identifier |-> "z"],
  (*  43 *) [kind |-> "NameRef", name_def |-> 32],
  (*  44 *) [kind |-> "NameRef", name_def |-> 42],
  (*  45 *) [kind |-> "NameDefTree", leaf |-> 42, nodes |-> <<>>],
  (*  46 *) [kind |-> "Let", name_def_tree |-> 45, rhs |-> 43, body |-> 44],
  (*  47 *) [kind |-> "Let", name_def_tree |-> 41, rhs |-> 28, body |-> 46],
  \* match3: fn f(x: u8) -> u8 { match x { u8:42 => u8:1, u8:64 => u8:2, _ => u8:3 } }
  (*  48 *) [kind |-> "NameDef", identifier |-> "x"],
  (*  49 *) [kind |-> "NameRef", name_def |-> 48],
  (*  50 *) [kind |-> "Number", value |-> 42],
  (*  51 *) [kind |-> "NameDefTree", leaf |-> 50, nodes |-> <<>>],
  (*  52 *) [kind |-> "Number", value |-> 1],
  (*  53 *) [kind |-> "MatchArm", patterns |-> <<51>>, expr |-> 52],
  (*  54 *) [kind |-> "Number", value |-> 64],
  (*  55 *) [kind |-> "NameDefTree", leaf |-> 54, nodes |-> <<>>],
  (*  56 *) [kind |-> "Number", value |-> 2],
  (*  57 *) [kind |-> "MatchArm", patterns |-> <<55>>, expr |-> 56],
  (*  58 *) [kind |-> "WildcardPattern"],
  (*  59 *) [kind |-> "NameDefTree", leaf |-> 58, nodes |-> <<>>],
  (*  60 *) [kind |-> "Number", value |-> 3],
  (*  61 *) [kind |-> "MatchArm", patterns |-> <<59>>, expr |-> 60],
  (*  62 *) [kind |-> "Match", matched |-> 49, arms |-> <<53, 57, 61>>],
  \* match1: fn f(x: u8) -> u8 { match x { y => y } }
  (*  63 *) [kind |-> "NameDef", identifier |-> "x"],
  (*  64 *) [kind |-> "NameRef", name_def |-> 63],
  (*  65 *) [kind |-> "NameDef", identifier |-> "y"],
  (*  66 *) [kind |-> "NameDefTree", leaf |-> 65, nodes |-> <<>>],
  (*  67 *) [kind |-> "NameRef", name_def |-> 65],
  (*  68 *) [kind |-> "MatchArm", patterns |-> <<66>>, expr |-> 67],
  (*  69 *) [kind |-> "Match", matched |-> 64, arms |-> <<68>>],
  \* match_multi: fn f(x: u8) -> u8 { match x { u8:1 | u8:2 | u8:3 => x, _ => u8:0 } }
  (*  70 *) [kind |-> "NameDef", identifier |-> "x"],
  (*  71 *) [kind |-> "NameRef", name_def |-> 70],
  (*  72 *) [kind |-> "Number", value |-> 1],
  (*  73 *) [kind |-> "NameDefTree", leaf |-> 72, nodes |-> <<>>],
  (*  74 *) [kind |-> "Number", value |-> 2],
  (*  75 *) [kind |-> "NameDefTree", leaf |-> 74, nodes |-> <<>>],
  (*  76 *) [kind |-> "Number", value |-> 3],
  (*  77 *) [kind |-> "NameDefTree", leaf |-> 76, nodes |-> <<>>],
  (*  78 *) [kind |-> "NameRef", name_def |-> 70],
  (*  79 *) [kind |-> "MatchArm", patterns |-> <<73, 75, 77>>, expr |-> 78],
  (*  80 *) [kind |-> "WildcardPattern"],
  (*  81 *) [kind |-> "NameDefTree", leaf |-> 80, nodes |-> <<>>],
  (*  82 *) [kind |-> "Number", value |-> 0],
  (*  83 *) [kind |-> "MatchArm", patterns |-> <<81>>, expr |-> 82],
  (*  84 *) [kind |-> "Match", matched |-> 71, arms |-> <<79, 83>>],
  \* match_tuple: fn f(t: (u8, u8), p: u8) -> u8 { match t { (u8:1, p) => u8:5, (n, _) => n } }
  (*  85 *) [kind |-> "NameDef", identifier |-> "t"],
  (*  86 *) [kind |-> "NameDef", identifier |-> "p"],
  (*  87 *) [kind |-> "NameRef", name_def |-> 85],
  (*  88 *) [kind |-> "NameDef", identifier |-> "n"],
  (*  89 *) [kind |-> "Number", value |-> 1],
  (*  90 *) [kind |-> "NameDefTree", leaf |-> 89, nodes |-> <<>>],
  (*  91 *) [kind |-> "NameRef", name_def |-> 86],
  (*  92 *) [kind |-> "NameDefTree", leaf |-> 91, nodes |-> <<>>],
  (*  93 *) [kind |-> "NameDefTree", leaf |-> 0, nodes |-> <<90, 92>>],
  (*  94 *) [kind |-> "Number", value |-> 5],
  (*  95 *) [kind |-> "MatchArm", patterns |-> <<93>>, expr |-> 94],
  (*  96 *) [kind |-> "NameDefTree", leaf |-> 88, nodes |-> <<>>],
  (*  97 *) [kind |-> "WildcardPattern"],
  (*  98 *) [kind |-> "NameDefTree", leaf |-> 97, nodes |-> <<>>],
  (*  99 *) [kind |-> "NameDefTree", leaf |-> 0, nodes |-> <<96, 98>>],
  (* 100 *) [kind |-> "NameRef", name_def |-> 88],
  (* 101 *) [kind |-> "MatchArm", patterns |-> <<99>>, expr |-> 100],
  (* 102 *) [kind |-> "Match", matched |-> 87, arms |-> <<95, 101>>],
  \* match_enum: enum E : u8 { A = 7 }  fn f(x: E) -> u8 { match x { E::A => u8:1, _ => u8:2 } }
  (* 103 *) [kind |-> "NameDef", identifier |-> "x"],
  (* 104 *) [kind |-> "NameRef", name_def |-> 103],
  (* 105 *) [kind |-> "Number", value |-> 7],
  (* 106 *) [kind |-> "ColonRef", is_import |-> FALSE, target |-> 105, attr |-> "A"],
  (* 107 *) [kind |-> "NameDefTree", leaf |-> 106, nodes |-> <<>>],
  (* 108 *) [kind |-> "Number", value |-> 1],
  (* 109 *) [kind |-> "MatchArm", patterns |-> <<107>>, expr |-> 108],
  (* 110 *) [kind |-> "WildcardPattern"],
  (* 111 *) [kind |-> "NameDefTree", leaf |-> 110, nodes |-> <<>>],
  (* 112 *) [kind |-> "Number", value |-> 2],
  (* 113 *) [kind |-> "MatchArm", patterns |-> <<111>>, expr |-> 112],
  (* 114 *) [kind |-> "Match", matched |-> 104, arms |-> <<109, 113>>],
  \* match_noarms: fn f(x: u8) -> u8 { match x { } }
  (* 115 *) [kind |-> "NameDef", identifier |-> "x"],
  (* 116 *) [kind |-> "NameRef", name_def |-> 115],
  (* 117 *) [kind |-> "Match", matched |-> 116, arms |-> <<>>],
  \* match_refutable: fn f(x: u8) -> u8 { match x { u8:1 => u8:1, u8:2 => u8:2 } }
  (* 118 *) [kind |-> "NameDef", identifier |-> "x"],
  (* 119 *) [kind |-> "NameRef", name_def |-> 118],
  (* 120 *) [kind |-> "Number", value |-> 1],
  (* 121 *) [kind |-> "NameDefTree", leaf |-> 120, nodes |-> <<>>],
  (* 122 *) [kind |-> "Number", value |-> 1],
  (* 123 *) [kind |-> "MatchArm", patterns |-> <<121>>, expr |-> 122],
  (* 124 *) [kind |-> "Number", value |-> 2],
  (* 125 *) [kind |-> "NameDefTree", leaf |-> 124, nodes |-> <<>>],
  (* 126 *) [kind |-> "Number", value |-> 2],
  (* 127 *) [kind |-> "MatchArm", patterns |-> <<125>>, expr |-> 126],
  (* 128 *) [kind |-> "Match", matched |-> 119, arms |-> <<123, 127>>],
  \* match_multi_default: fn f(x: u8) -> u8 { match x { u8:1 => u8:1, _ | y => u8:2 } }
  (* 129 *) [kind |-> "NameDef", identifier |-> "x"],
  (* 130 *) [kind |-> "NameRef", name_def |-> 129],
  (* 131 *) [kind |-> "Number", value |-> 1],
  (* 132 *) [kind |-> "NameDefTree", leaf |-> 131, nodes |-> <<>>],
  (* 133 *) [kind |-> "Number", value |-> 1],
  (* 134 *) [kind |-> "MatchArm", patterns |-> <<132>>, expr |-> 133],
  (* 135 *) [kind |-> "WildcardPattern"],
  (* 136 *) [kind |-> "NameDefTree", leaf |-> 135, nodes |-> <<>>],
  (* 137 *) [kind |-> "NameDef", identifier |-> "y"],
  (* 138 *) [kind |-> "NameDefTree", leaf |-> 137, nodes |-> <<>>],
  (* 139 *) [kind |-> "Number", value |-> 2],
  (* 140 *) [kind |-> "MatchArm", patterns |-> <<136, 138>>, expr |-> 139],
  (* 141 *) [kind |-> "Match", matched |-> 130, arms |-> <<134, 140>>],
  \* match_multi_refutable: fn f(x: u8) -> u8 { match x { u8:1 | _ => u8:2 } }
  (* 142 *) [kind |-> "NameDef", identifier |-> "x"],
  (* 143 *) [kind |-> "NameRef", name_def |-> 142],
  (* 144 *) [kind |-> "Number", value |-> 1],
  (* 145 *) [kind |-> "NameDefTree", leaf |-> 144, nodes |-> <<>>],
  (* 146 *) [kind |-> "WildcardPattern"],
  (* 147 *) [kind |-> "NameDefTree", leaf |-> 146, nodes |-> <<>>],
  (* 148 *) [kind |-> "Number", value |-> 2],
  (* 149 *) [kind |-> "MatchArm", patterns |-> <<145, 147>>, expr |-> 148],
  (* 150 *) [kind |-> "Match", matched |-> 143, arms |-> <<149>>],
  \* const_add: const C = u8:7;  fn f(x: u8) -> u8 { C + x }
  (* 151 *) [kind |-> "NameDef", identifier |-> "C"],
  (* 152 *) [kind |-> "Number", value |-> 7],
  (* 153 *) [kind |-> "ConstantDef", name_def |-> 151, value |-> 152],
  (* 154 *) [kind |-> "NameDef", identifier |-> "x"],
  (* 155 *) [kind |-> "NameRef", name_def |-> 151],
  (* 156 *) [kind |-> "NameRef", name_def |-> 154],
  (* 157 *) [kind |-> "Binop", op |-> "Add", lhs |-> 155, rhs |-> 156],
  \* colon_ref: import imp  fn f(c: u1) -> u8 { imp::K if c else E::A }
  (* 158 *) [kind |-> "NameDef", identifier |-> "K"],
  (* 159 *) [kind |-> "Number", value |-> 9],
  (* 160 *) [kind |-> "ConstantDef", name_def |-> 158, value |-> 159],
  (* 161 *) [kind |-> "NameDef", identifier |-> "c"],
  (* 162 *) [kind |-> "NameRef", name_def |-> 161],
  (* 163 *) [kind |-> "ColonRef", is_import |-> TRUE, target |-> 160, attr |-> "K"],
  (* 164 *) [kind |-> "Number", value |-> 7],
  (* 165 *) [kind |-> "ColonRef", is_import |-> FALSE, target |-> 164, attr |-> "A"],
  (* 166 *) [kind |-> "Ternary", test |-> 162, consequent |-> 163, alternate |-> 165],
  \* tuple: fn f(x: u8) -> (u8, u8) { (x, u8:1) }
  (* 167 *) [kind |-> "NameDef", identifier |-> "x"],
  (* 168 *) [kind |-> "NameRef", name_def |-> 167],
  (* 169 *) [kind |-> "Number", value |-> 1],
  (* 170 *) [kind |-> "XlsTuple", members |-> <<168, 169>>],
  \* untyped: fn f(x: u8) -> u8 { match x { _ | y => u8:1 } }  (no type recorded for the matched x)
  (* 171 *) [kind |-> "NameDef", identifier |-> "x"],
  (* 172 *) [kind |-> "NameRef", name_def |-> 171],
  (* 173 *) [kind |-> "WildcardPattern"],
  (* 174 *) [kind |-> "NameDefTree", leaf |-> 173, nodes |-> <<>>],
  (* 175 *) [kind |-> "NameDef", identifier |-> "y"],
  (* 176 *) [kind |-> "NameDefTree", leaf |-> 175, nodes |-> <<>>],
  (* 177 *) [kind |-> "Number", value |-> 1],
  (* 178 *) [kind |-> "MatchArm", patterns |-> <<174, 176>>, expr |-> 177],
  (* 179 *) [kind |-> "Match", matched |-> 172, arms |-> <<178>>],
  \* const_tuple: fn f() -> (u8, u8) { (u8:1, u8:2) }
  (* 180 *) [kind |-> "Number", value |-> 1],
  (* 181 *) [kind |-> "Number", value |-> 2],
  (* 182 *) [kind |-> "XlsTuple", members |-> <<180, 181>>],
  \* const_struct: struct P { a: u8, b: u8 }  fn f() -> P { P { b: u8:2, a: u8:1 } }
  (* 183 *) [kind |-> "StructDef", identifier |-> "P", members |-> <<"a", "b">>],
  (* 184 *) [kind |-> "Number", value |-> 2],
  (* 185 *) [kind |-> "Number", value |-> 1],
  (* 186 *) [kind |-> "StructInstance", struct_def |-> 183, members |-> <<<<"b", 184>>, <<"a", 185>>>>],
  \* struct: struct P { a: u8, b: u8 }  fn f(x: u8) -> P { P { a: u8:1, b: x } }
  (* 187 *) [kind |-> "StructDef", identifier |-> "P", members |-> <<"a", "b">>],
  (* 188 *) [kind |-> "NameDef", identifier |-> "x"],
  (* 189 *) [kind |-> "Number", value |-> 1],
  (* 190 *) [kind |-> "NameRef", name_def |-> 188],
  (* 191 *) [kind |-> "StructInstance", struct_def |-> 187, members |-> <<<<"a", 189>>, <<"b", 190>>>>],
  \* const_n: const N = u8:4;  fn f(x: u8) -> u8 { N + x }
  (* 192 *) [kind |-> "NameDef", identifier |-> "N"],
  (* 193 *) [kind |-> "Number", value |-> 4],
  (* 194 *) [kind |-> "ConstantDef", name_def |-> 192, value |-> 193],
  (* 195 *) [kind |-> "NameDef", identifier |-> "x"],
  (* 196 *) [kind |-> "NameRef", name_def |-> 192],
  (* 197 *) [kind |-> "NameRef", name_def |-> 195],
  (* 198 *) [kind |-> "Binop", op |-> "Add", lhs |-> 196, rhs |-> 197],
  \* const_mn: const M = u8:8;  const N = u8:4;  fn f() -> u8 { M + N }
  (* 199 *) [kind |-> "NameDef", identifier |-> "M"],
  (* 200 *) [kind |-> "Number", value |-> 8],
  (* 201 *) [kind |-> "ConstantDef", name_def |-> 199, value |-> 200],
  (* 202 *) [kind |-> "NameDef", identifier |-> "N"],
  (* 203 *) [kind |-> "Number", value |-> 4],
  (* 204 *) [kind |-> "ConstantDef", name_def |-> 202, value |-> 203],
  (* 205 *) [kind |-> "NameRef", name_def |-> 199],
  (* 206 *) [kind |-> "NameRef", name_def |-> 202],
  (* 207 *) [kind |-> "Binop", op |-> "Add", lhs |-> 205, rhs |-> 206],
  \* binops: fn f(x: s8, y: u8, e: E) { x + y; y + x; x - y; y - x; ...; x || y; y || x; e == e; e < e }
  (* 208 *) [kind |-> "NameDef", identifier |-> "x"],
  (* 209 *) [kind |-> "NameDef", identifier |-> "y"],
  (* 210 *) [kind |-> "NameDef", identifier |-> "e"],
  (* 211 *) [kind |-> "NameRef", name_def |-> 208],
  (* 212 *) [kind |-> "NameRef", name_def |-> 209],
  (* 213 *) [kind |-> "Binop", op |-> "Add", lhs |-> 211, rhs |-> 212],
  (* 214 *) [kind |-> "NameRef", name_def |-> 209],
  (* 215 *) [kind |-> "NameRef", name_def |-> 208],
  (* 216 *) [kind |-> "Binop", op |-> "Add", lhs |-> 214, rhs |-> 215],
  (* 217 *) [kind |-> "NameRef", name_def |-> 208],
  (* 218 *) [kind |-> "NameRef", name_def |-> 209],
  (* 219 *) [kind |-> "Binop", op |-> "Sub", lhs |-> 217, rhs |-> 218],
  (* 220 *) [kind |-> "NameRef", name_def |-> 209],
  (* 221 *) [kind |-> "NameRef", name_def |-> 208],
  (* 222 *) [kind |-> "Binop", op |-> "Sub", lhs |-> 220, rhs |-> 221],
  (* 223 *) [kind |-> "NameRef", name_def |-> 208],
  (* 224 *) [kind |-> "NameRef", name_def |-> 209],
  (* 225 *) [kind |-> "Binop", op |-> "Mul", lhs |-> 223, rhs |-> 224],
  (* 226 *) [kind |-> "NameRef", name_def |-> 209],
  (* 227 *) [kind |-> "NameRef", name_def |-> 208],
  (* 228 *) [kind |-> "Binop", op |-> "Mul", lhs |-> 226, rhs |-> 227],
  (* 229 *) [kind |-> "NameRef", name_def |-> 208],
  (* 230 *) [kind |-> "NameRef", name_def |-> 209],
  (* 231 *) [kind |-> "Binop", op |-> "Div", lhs |-> 229, rhs |-> 230],
  (* 232 *) [kind |-> "NameRef", name_def |-> 209],
  (* 233 *) [kind |-> "NameRef", name_def |-> 208],
  (* 234 *) [kind |-> "Binop", op |-> "Div", lhs |-> 232, rhs |-> 233],
  (* 235 *) [kind |-> "NameRef", name_def |-> 208],
  (* 236 *) [kind |-> "NameRef", name_def |-> 209],
  (* 237 *) [kind |-> "Binop", op |-> "Eq", lhs |-> 235, rhs |-> 236],
  (* 238 *) [kind |-> "NameRef", name_def |-> 209],
  (* 239 *) [kind |-> "NameRef", name_def |-> 208],
  (* 240 *) [kind |-> "Binop", op |-> "Eq", lhs |-> 238, rhs |-> 239],
  (* 241 *) [kind |-> "NameRef", name_def |-> 208],
  (* 242 *) [kind |-> "NameRef", name_def |-> 209],
  (* 243 *) [kind |-> "Binop", op |-> "Ne", lhs |-> 241, rhs |-> 242],
  (* 244 *) [kind |-> "NameRef", name_def |-> 209],
  (* 245 *) [kind |-> "NameRef", name_def |-> 208],
  (* 246 *) [kind |-> "Binop", op |-> "Ne", lhs |-> 244, rhs |-> 245],
  (* 247 *) [kind |-> "NameRef", name_def |-> 208],
  (* 248 *) [kind |-> "NameRef", name_def |-> 209],
  (* 249 *) [kind |-> "Binop", op |-> "Ge", lhs |-> 247, rhs |-> 248],
  (* 250 *) [kind |-> "NameRef", name_def |-> 209],
  (* 251 *) [kind |-> "NameRef", name_def |-> 208],
  (* 252 *) [kind |-> "Binop", op |-> "Ge", lhs |-> 250, rhs |-> 251],
  (* 253 *) [kind |-> "NameRef", name_def |-> 208],
  (* 254 *) [kind |-> "NameRef", name_def |-> 209],
  (* 255 *) [kind |-> "Binop", op |-> "Gt", lhs |-> 253, rhs |-> 254],
  (* 256 *) [kind |-> "NameRef", name_def |-> 209],
  (* 257 *) [kind |-> "NameRef", name_def |-> 208],
  (* 258 *) [kind |-> "Binop", op |-> "Gt", lhs |-> 256, rhs |-> 257],
  (* 259 *) [kind |-> "NameRef", name_def |-> 208],
  (* 260 *) [kind |-> "NameRef", name_def |-> 209],
  (* 261 *) [kind |-> "Binop", op |-> "Le", lhs |-> 259, rhs |-> 260],
  (* 262 *) [kind |-> "NameRef", name_def |-> 209],
  (* 263 *) [kind |-> "NameRef", name_def |-> 208],
  (* 264 *) [kind |-> "Binop", op |-> "Le", lhs |-> 262, rhs |-> 263],
  (* 265 *) [kind |-> "NameRef", name_def |-> 208],
  (* 266 *) [kind |-> "NameRef", name_def |-> 209],
  (* 267 *) [kind |-> "Binop", op |-> "Lt", lhs |-> 265, rhs |-> 266],
  (* 268 *) [kind |-> "NameRef", name_def |-> 209],
  (* 269 *) [kind |-> "NameRef", name_def |-> 208],
  (* 270 *) [kind |-> "Binop", op |-> "Lt", lhs |-> 268, rhs |-> 269],
  (* 271 *) [kind |-> "NameRef", name_def |-> 208],
  (* 272 *) [kind |-> "NameRef", name_def |-> 209],
  (* 273 *) [kind |-> "Binop", op |-> "Shrl", lhs |-> 271, rhs |-> 272],
  (* 274 *) [kind |-> "NameRef", name_def |-> 209],
  (* 275 *) [kind |-> "NameRef", name_def |-> 208],
  (* 276 *) [kind |-> "Binop", op |-> "Shrl", lhs |-> 274, rhs |-> 275],
  (* 277 *) [kind |-> "NameRef", name_def |-> 208],
  (* 278 *) [kind |-> "NameRef", name_def |-> 209],
  (* 279 *) [kind |-> "Binop", op |-> "Shll", lhs |-> 277, rhs |-> 278],
  (* 280 *) [kind |-> "NameRef", name_def |-> 209],
  (* 281 *) [kind |-> "NameRef", name_def |-> 208],
  (* 282 *) [kind |-> "Binop", op |-> "Shll", lhs |-> 280, rhs |-> 281],
  (* 283 *) [kind |-> "NameRef", name_def |-> 208],
  (* 284 *) [kind |-> "NameRef", name_def |-> 209],
  (* 285 *) [kind |-> "Binop", op |-> "Shra", lhs |-> 283, rhs |-> 284],
  (* 286 *) [kind |-> "NameRef", name_def |-> 209],
  (* 287 *) [kind |-> "NameRef", name_def |-> 208],
  (* 288 *) [kind |-> "Binop", op |-> "Shra", lhs |-> 286, rhs |-> 287],
  (* 289 *) [kind |-> "NameRef", name_def |-> 208],
  (* 290 *) [kind |-> "NameRef", name_def |-> 209],
  (* 291 *) [kind |-> "Binop", op |-> "Xor", lhs |-> 289, rhs |-> 290],
  (* 292 *) [kind |-> "NameRef", name_def |-> 209],
  (* 293 *) [kind |-> "NameRef", name_def |-> 208],
  (* 294 *) [kind |-> "Binop", op |-> "Xor", lhs |-> 292, rhs |-> 293],
  (* 295 *) [kind |-> "NameRef", name_def |-> 208],
  (* 296 *) [kind |-> "NameRef", name_def |-> 209],
  (* 297 *) [kind |-> "Binop", op |-> "And", lhs |-> 295, rhs |-> 296],
  (* 298 *) [kind |-> "NameRef", name_def |-> 209],
  (* 299 *) [kind |-> "NameRef", name_def |-> 208],
  (* 300 *) [kind |-> "Binop", op |-> "And", lhs |-> 298, rhs |-> 299],
  (* 301 *) [kind |-> "NameRef", name_def |-> 208],
  (* 302 *) [kind |-> "NameRef", name_def |-> 209],
  (* 303 *) [kind |-> "Binop", op |-> "Or", lhs |-> 301, rhs |-> 302],
  (* 304 *) [kind |-> "NameRef", name_def |-> 209],
  (* 305 *) [kind |-> "NameRef", name_def |-> 208],
  (* 306 *) [kind |-> "Binop", op |-> "Or", lhs |-> 304, rhs |-> 305],
  (* 307 *) [kind |-> "NameRef", name_def |-> 208],
  (* 308 *) [kind |-> "NameRef", name_def |-> 209],
  (* 309 *) [kind |-> "Binop", op |-> "LogicalAnd", lhs |-> 307, rhs |-> 308],
  (* 310 *) [kind |-> "NameRef", name_def |-> 209],
  (* 311 *) [kind |-> "NameRef", name_def |-> 208],
  (* 312 *) [kind |-> "Binop", op |-> "LogicalAnd", lhs |-> 310, rhs |-> 311],
  (* 313 *) [kind |-> "NameRef", name_def |-> 208],
  (* 314 *) [kind |-> "NameRef", name_def |-> 209],
  (* 315 *) [kind |-> "Binop", op |-> "LogicalOr", lhs |-> 313, rhs |-> 314],
  (* 316 *) [kind |-> "NameRef", name_def |-> 209],
  (* 317 *) [kind |-> "NameRef", name_def |-> 208],
  (* 318 *) [kind |-> "Binop", op |-> "LogicalOr", lhs |-> 316, rhs |-> 317],
  (* 319 *) [kind |-> "NameRef", name_def |-> 210],
  (* 320 *) [kind |-> "NameRef", name_def |-> 210],
  (* 321 *) [kind |-> "Binop", op |-> "Eq", lhs |-> 319, rhs |-> 320],
  (* 322 *) [kind |-> "NameRef", name_def |-> 210],
  (* 323 *) [kind |-> "NameRef", name_def |-> 210],
  (* 324 *) [kind |-> "Binop", op |-> "Lt", lhs |-> 322, rhs |-> 323],
  \* casts: fn f(x: u8, s: s4, y: u4, a: u2[4], e: E) { x as u4; y as u8; s as s8; s as u8; s as u4; y as s4; x as s4; e as u8; e as u4; x as u2[4]; x as u4[2]; x as u8[1]; a as u8; (x as an untyped cast) }
  (* 325 *) [kind |-> "NameDef", identifier |-> "x"],
  (* 326 *) [kind |-> "NameDef", identifier |-> "s"],
  (* 327 *) [kind |-> "NameDef", identifier |-> "y"],
  (* 328 *) [kind |-> "NameDef", identifier |-> "a"],
  (* 329 *) [kind |-> "NameDef", identifier |-> "e"],
  (* 330 *) [kind |-> "NameRef", name_def |-> 325],
  (* 331 *) [kind |-> "Cast", expr |-> 330],
  (* 332 *) [kind |-> "NameRef", name_def |-> 327],
  (* 333 *) [kind |-> "Cast", expr |-> 332],
  (* 334 *) [kind |-> "NameRef", name_def |-> 326],
  (* 335 *) [kind |-> "Cast", expr |-> 334],
  (* 336 *) [kind |-> "NameRef", name_def |-> 326],
  (* 337 *) [kind |-> "Cast", expr |-> 336],
  (* 338 *) [kind |-> "NameRef", name_def |-> 326],
  (* 339 *) [kind |-> "Cast", expr |-> 338],
  (* 340 *) [kind |-> "NameRef", name_def |-> 327],
  (* 341 *) [kind |-> "Cast", expr |-> 340],
  (* 342 *) [kind |-> "NameRef", name_def |-> 325],
  (* 343 *) [kind |-> "Cast", expr |-> 342],
  (* 344 *) [kind |-> "NameRef", name_def |-> 329],
  (* 345 *) [kind |-> "Cast", expr |-> 344],
  (* 346 *) [kind |-> "NameRef", name_def |-> 329],
  (* 347 *) [kind |-> "Cast", expr |-> 346],
  (* 348 *) [kind |-> "NameRef", name_def |-> 325],
  (* 349 *) [kind |-> "Cast", expr |-> 348],
  (* 350 *) [kind |-> "NameRef", name_def |-> 325],
  (* 351 *) [kind |-> "Cast", expr |-> 350],
  (* 352 *) [kind |-> "NameRef", name_def |-> 325],
  (* 353 *) [kind |-> "Cast", expr |-> 352],
  (* 354 *) [kind |-> "NameRef", name_def |-> 328],
  (* 355 *) [kind |-> "Cast", expr |-> 354],
  (* 356 *) [kind |-> "NameRef", name_def |-> 325],
  (* 357 *) [kind |-> "Cast", expr |-> 356],
  \* maps: fn f(a: u8[3], b: u4[2]) { map(a, clz); map(a, clz); map(a, ctz); map(b, clz); map(a, clz) (no bindings recorded); map(a, rev); map(a, h); map(a, p); map(a, p) (no bindings recorded); map(a, imp::g); map(a, u8:1); map(z, u8:1) (z not bound) }
  (* 358 *) [kind |-> "NameDef", identifier |-> "a"],
  (* 359 *) [kind |-> "NameDef", identifier |-> "b"],
  (* 360 *) [kind |-> "NameDef", identifier |-> "z"],
  (* 361 *) [kind |-> "BuiltinNameDef", identifier |-> "clz", chars |-> <<"c", "l", "z">>],
  (* 362 *) [kind |-> "BuiltinNameDef", identifier |-> "ctz", chars |-> <<"c", "t", "z">>],
  (* 363 *) [kind |-> "BuiltinNameDef", identifier |-> "rev", chars |-> <<"r", "e", "v">>],
  (* 364 *) [kind |-> "Function", identifier |-> "h", chars |-> <<"h">>, free_keys |-> <<>>, module |-> <<"m">>],
  (* 365 *) [kind |-> "NameDef", identifier |-> "h", chars |-> <<"h">>],
  (* 366 *) [kind |-> "Function", identifier |-> "p", chars |-> <<"p">>, free_keys |-> <<"N">>, module |-> <<"m">>],
  (* 367 *) [kind |-> "NameDef", identifier |-> "p", chars |-> <<"p">>],
  (* 368 *) [kind |-> "Function", identifier |-> "g", chars |-> <<"g">>, free_keys |-> <<>>, module |-> <<"i", "m", "p">>],
  (* 369 *) [kind |-> "NameRef", name_def |-> 358],
  (* 370 *) [kind |-> "NameRef", name_def |-> 361],
  (* 371 *) [kind |-> "Invocation", args |-> <<369, 370>>],
  (* 372 *) [kind |-> "NameRef", name_def |-> 358],
  (* 373 *) [kind |-> "NameRef", name_def |-> 361],
  (* 374 *) [kind |-> "Invocation", args |-> <<372, 373>>],
  (* 375 *) [kind |-> "NameRef", name_def |-> 358],
  (* 376 *) [kind |-> "NameRef", name_def |-> 362],
  (* 377 *) [kind |-> "Invocation", args |-> <<375, 376>>],
  (* 378 *) [kind |-> "NameRef", name_def |-> 359],
  (* 379 *) [kind |-> "NameRef", name_def |-> 361],
  (* 380 *) [kind |-> "Invocation", args |-> <<378, 379>>],
  (* 381 *) [kind |-> "NameRef", name_def |-> 358],
  (* 382 *) [kind |-> "NameRef", name_def |-> 361],
  (* 383 *) [kind |-> "Invocation", args |-> <<381, 382>>],
  (* 384 *) [kind |-> "NameRef", name_def |-> 358],
  (* 385 *) [kind |-> "NameRef", name_def |-> 363],
  (* 386 *) [kind |-> "Invocation", args |-> <<384, 385>>],
  (* 387 *) [kind |-> "NameRef", name_def |-> 358],
  (* 388 *) [kind |-> "NameRef", name_def |-> 365],
  (* 389 *) [kind |-> "Invocation", args |-> <<387, 388>>],
  (* 390 *) [kind |-> "NameRef", name_def |-> 358],
  (* 391 *) [kind |-> "NameRef", name_def |-> 367],
  (* 392 *) [kind |-> "Invocation", args |-> <<390, 391>>],
  (* 393 *) [kind |-> "NameRef", name_def |-> 358],
  (* 394 *) [kind |-> "NameRef", name_def |-> 367],
  (* 395 *) [kind |-> "Invocation", args |-> <<393, 394>>],
  (* 396 *) [kind |-> "NameRef", name_def |-> 358],
  (* 397 *) [kind |-> "ColonRef", is_import |-> TRUE, target |-> 368, attr |-> "g"],
  (* 398 *) [kind |-> "Invocation", args |-> <<396, 397>>],
  (* 399 *) [kind |-> "NameRef", name_def |-> 358],
  (* 400 *) [kind |-> "Number", value |-> 1],
  (* 401 *) [kind |-> "Invocation", args |-> <<399, 400>>],
  (* 402 *) [kind |-> "NameRef", name_def |-> 360],
  (* 403 *) [kind |-> "Number", value |-> 1],
  (* 404 *) [kind |-> "Invocation", args |-> <<402, 403>>],
  \* let_unbound: fn f() -> u8 { let a = u8:1; z } (z not bound)
  (* 405 *) [kind |-> "NameDef", identifier |-> "a"],
  (* 406 *) [kind |-> "NameDef", identifier |-> "z"],
  (* 407 *) [kind |-> "Number", value |-> 1],
  (* 408 *) [kind |-> "NameRef", name_def |-> 406],
  (* 409 *) [kind |-> "NameDefTree", leaf |-> 405, nodes |-> <<>>],
  (* 410 *) [kind |-> "Let", name_def_tree |-> 409, rhs |-> 407, body |-> 408],
  \* splat: struct P { a: u8, b: u8 }  fn f(s: P) -> P { P { a: u8:1, ..s } }
  (* 411 *) [kind |-> "StructDef", identifier |-> "P", members |-> <<"a", "b">>],
  (* 412 *) [kind |-> "NameDef", identifier |-> "s"],
  (* 413 *) [kind |-> "Number", value |-> 1],
  (* 414 *) [kind |-> "NameRef", name_def |-> 412],
  (* 415 *) [kind |-> "SplatStructInstance", struct_ref |-> 411, members |-> <<<<"a", 413>>>>, splatted |-> 414],
  \* let_match: fn f(x: u8) -> u8 { let a = match x { y => y }; x }
  (* 416 *) [kind |-> "NameDef", identifier |-> "x"],
  (* 417 *) [kind |-> "NameRef", name_def |-> 416],
  (* 418 *) [kind |-> "NameDef", identifier |-> "y"],
  (* 419 *) [kind |-> "NameDefTree", leaf |-> 418, nodes |-> <<>>],
  (* 420 *) [kind |-> "NameRef", name_def |-> 418],
  (* 421 *) [kind |-> "MatchArm", patterns |-> <<419>>, expr |-> 420],
  (* 422 *) [kind |-> "Match", matched |-> 417, arms |-> <<421>>],
  (* 423 *) [kind |-> "NameDef", identifier |-> "a"],
  (* 424 *) [kind |-> "NameDefTree", leaf |-> 423, nodes |-> <<>>],
  (* 425 *) [kind |-> "NameRef", name_def |-> 416],
  (* 426 *) [kind |-> "Let", name_def_tree |-> 424, rhs |-> 422, body |-> 425],
  \* maps_shared: fn f(a: u8[3], b: u4[2]) { map(a, ctz); map(b, ctz) } (the bindings recorded for both invocations have no entries)
  (* 427 *) [kind |-> "NameDef", identifier |-> "a"],
  (* 428 *) [kind |-> "NameDef", identifier |-> "b"],
  (* 429 *) [kind |-> "BuiltinNameDef", identifier |-> "ctz", chars |-> <<"c", "t", "z">>],
  (* 430 *) [kind |-> "NameRef", name_def |-> 427],
  (* 431 *) [kind |-> "NameRef", name_def |-> 429],
  (* 432 *) [kind |-> "Invocation", args |-> <<430, 431>>],
  (* 433 *) [kind |-> "NameRef", name_def |-> 428],
  (* 434 *) [kind |-> "NameRef", name_def |-> 429],
  (* 435 *) [kind |-> "Invocation", args |-> <<433, 434>>]
  >>

TypeInfo ==
  (1 :> [k |-> "bits", signed |-> FALSE, n |-> 8, ms |-> <<>>]
      @@ 2 :> [k |-> "bits", signed |-> FALSE, n |-> 8, ms |-> <<>>]
      @@ 3 :> [k |-> "bits", signed |-> FALSE, n |-> 8, ms |-> <<>>]
      @@ 4 :> [k |-> "bits", signed |-> TRUE, n |-> 8, ms |-> <<>>]
      @@ 5 :> [k |-> "bits", signed |-> TRUE, n |-> 8, ms |-> <<>>]
      @@ 6 :> [k |-> "bits", signed |-> TRUE, n |-> 8, ms |-> <<>>]
      @@ 7 :> [k |-> "bits", signed |-> TRUE, n |-> 8, ms |-> <<>>]
      @@ 8 :> [k |-> "bits", signed |-> FALSE, n |-> 1, ms |-> <<>>]
      @@ 9 :> [k |-> "bits", signed |-> FALSE, n |-> 8, ms |-> <<>>]
      @@ 10 :> [k |-> "bits", signed |-> FALSE, n |-> 8, ms |-> <<>>]
      @@ 11 :> [k |-> "bits", signed |-> FALSE, n |-> 8, ms |-> <<>>]
      @@ 12 :> [k |-> "bits", signed |-> FALSE, n |-> 8, ms |-> <<>>]
      @@ 14 :> [k |-> "bits", signed |-> FALSE, n |-> 8, ms |-> <<>>]
      @@ 15 :> [k |-> "tuple", signed |-> FALSE, n |-> 2, ms |-> <<[k |-> "bits", signed |-> FALSE, n |-> 8, ms |-> <<>>], [k |-> "tuple", signed |-> FALSE, n |-> 2, ms |-> <<[k |-> "bits", signed |-> FALSE, n |-> 8, ms |-> <<>>], [k |-> "bits", signed |-> FALSE, n |-> 8, ms |-> <<>>]>>]>>]
      @@ 16 :> [k |-> "tuple", signed |-> FALSE, n |-> 2, ms |-> <<[k |-> "bits", signed |-> FALSE, n |-> 8, ms |-> <<>>], [k |-> "tuple", signed |-> FALSE, n |-> 2, ms |-> <<[k |-> "bits", signed |-> FALSE, n |-> 8, ms |-> <<>>], [k |-> "bits", signed |-> FALSE, n |-> 8, ms |-> <<>>]>>]>>]
      @@ 17 :> [k |-> "bits", signed |-> FALSE, n |-> 8, ms |-> <<>>]
      @@ 18 :> [k |-> "bits", signed |-> FALSE, n |-> 8, ms |-> <<>>]
      @@ 19 :> [k |-> "bits", signed |-> FALSE, n |-> 8, ms |-> <<>>]
      @@ 25 :> [k |-> "bits", signed |-> FALSE, n |-> 8, ms |-> <<>>]
      @@ 26 :> [k |-> "bits", signed |-> FALSE, n |-> 8, ms |-> <<>>])
  @@ (27 :> [k |-> "tuple", signed |-> FALSE, n |-> 3, ms |-> <<[k |-> "tuple", signed |-> FALSE, n |-> 2, ms |-> <<[k |-> "bits", signed |-> FALSE, n |-> 8, ms |-> <<>>], [k |-> "tuple", signed |-> FALSE, n |-> 2, ms |-> <<[k |-> "bits", signed |-> FALSE, n |-> 8, ms |-> <<>>], [k |-> "bits", signed |-> FALSE, n |-> 8, ms |-> <<>>]>>]>>], [k |-> "bits", signed |-> FALSE, n |-> 8, ms |-> <<>>], [k |-> "bits", signed |-> FALSE, n |-> 8, ms |-> <<>>]>>]
      @@ 28 :> [k |-> "tuple", signed |-> FALSE, n |-> 3, ms |-> <<[k |-> "tuple", signed |-> FALSE, n |-> 2, ms |-> <<[k |-> "bits", signed |-> FALSE, n |-> 8, ms |-> <<>>], [k |-> "tuple", signed |-> FALSE, n |-> 2, ms |-> <<[k |-> "bits", signed |-> FALSE, n |-> 8, ms |-> <<>>], [k |-> "bits", signed |-> FALSE, n |-> 8, ms |-> <<>>]>>]>>], [k |-> "bits", signed |-> FALSE, n |-> 8, ms |-> <<>>], [k |-> "bits", signed |-> FALSE, n |-> 8, ms |-> <<>>]>>]
      @@ 29 :> [k |-> "bits", signed |-> FALSE, n |-> 8, ms |-> <<>>]
      @@ 30 :> [k |-> "bits", signed |-> FALSE, n |-> 8, ms |-> <<>>]
      @@ 31 :> [k |-> "bits", signed |-> FALSE, n |-> 8, ms |-> <<>>]
      @@ 32 :> [k |-> "bits", signed |-> FALSE, n |-> 8, ms |-> <<>>]
      @@ 42 :> [k |-> "bits", signed |-> FALSE, n |-> 8, ms |-> <<>>]
      @@ 43 :> [k |-> "bits", signed |-> FALSE, n |-> 8, ms |-> <<>>]
      @@ 44 :> [k |-> "bits", signed |-> FALSE, n |-> 8, ms |-> <<>>]
      @@ 46 :> [k |-> "bits", signed |-> FALSE, n |-> 8, ms |-> <<>>]
      @@ 47 :> [k |-> "bits", signed |-> FALSE, n |-> 8, ms |-> <<>>]
      @@ 48 :> [k |-> "bits", signed |-> FALSE, n |-> 8, ms |-> <<>>]
      @@ 49 :> [k |-> "bits", signed |-> FALSE, n |-> 8, ms |-> <<>>]
      @@ 50 :> [k |-> "bits", signed |-> FALSE, n |-> 8, ms |-> <<>>]
      @@ 52 :> [k |-> "bits", signed |-> FALSE, n |-> 8, ms |-> <<>>]
      @@ 54 :> [k |-> "bits", signed |-> FALSE, n |-> 8, ms |-> <<>>]
      @@ 56 :> [k |-> "bits", signed |-> FALSE, n |-> 8, ms |-> <<>>]
      @@ 60 :> [k |-> "bits", signed |-> FALSE, n |-> 8, ms |-> <<>>]
      @@ 62 :> [k |-> "bits", signed |-> FALSE, n |-> 8, ms |-> <<>>]
      @@ 63 :> [k |-> "bits", signed |-> FALSE, n |-> 8, ms |-> <<>>])
  @@ (64 :> [k |-> "bits", signed |-> FALSE, n |-> 8, ms |-> <<>>]
      @@ 65 :> [k |-> "bits", signed |-> FALSE, n |-> 8, ms |-> <<>>]
      @@ 67 :> [k |-> "bits", signed |-> FALSE, n |-> 8, ms |-> <<>>]
      @@ 69 :> [k |-> "bits", signed |-> FALSE, n |-> 8, ms |-> <<>>]
      @@ 70 :> [k |-> "bits", signed |-> FALSE, n |-> 8, ms |-> <<>>]
      @@ 71 :> [k |-> "bits", signed |-> FALSE, n |-> 8, ms |-> <<>>]
      @@ 72 :> [k |-> "bits", signed |-> FALSE, n |-> 8, ms |-> <<>>]
      @@ 74 :> [k |-> "bits", signed |-> FALSE, n |-> 8, ms |-> <<>>]
      @@ 76 :> [k |-> "bits", signed |-> FALSE, n |-> 8, ms |-> <<>>]
      @@ 78 :> [k |-> "bits", signed |-> FALSE, n |-> 8, ms |-> <<>>]
      @@ 82 :> [k |-> "bits", signed |-> FALSE, n |-> 8, ms |-> <<>>]
      @@ 84 :> [k |-> "bits", signed |-> FALSE, n |-> 8, ms |-> <<>>]
      @@ 85 :> [k |-> "tuple", signed |-> FALSE, n |-> 2, ms |-> <<[k |-> "bits", signed |-> FALSE, n |-> 8, ms |-> <<>>], [k |-> "bits", signed |-> FALSE, n |-> 8, ms |-> <<>>]>>]
      @@ 86 :> [k |-> "bits", signed |-> FALSE, n |-> 8, ms |-> <<>>]
      @@ 87 :> [k |-> "tuple", signed |-> FALSE, n |-> 2, ms |-> <<[k |-> "bits", signed |-> FALSE, n |-> 8, ms |-> <<>>], [k |-> "bits", signed |-> FALSE, n |-> 8, ms |-> <<>>]>>]
      @@ 88 :> [k |-> "bits", signed |-> FALSE, n |-> 8, ms |-> <<>>]
      @@ 89 :> [k |-> "bits", signed |-> FALSE, n |-> 8, ms |-> <<>>]
      @@ 91 :> [k |-> "bits", signed |-> FALSE, n |-> 8, ms |-> <<>>]
      @@ 94 :> [k |-> "bits", signed |-> FALSE, n |-> 8, ms |-> <<>>]
      @@ 100 :> [k |-> "bits", signed |-> FALSE, n |-> 8, ms |-> <<>>])
  @@ (102 :> [k |-> "bits", signed |-> FALSE, n |-> 8, ms |-> <<>>]
      @@ 103 :> [k |-> "enum", signed |-> FALSE, n |-> 8, ms |-> <<>>]
      @@ 104 :> [k |-> "enum", signed |-> FALSE, n |-> 8, ms |-> <<>>]
      @@ 105 :> [k |-> "enum", signed |-> FALSE, n |-> 8, ms |-> <<>>]
      @@ 106 :> [k |-> "enum", signed |-> FALSE, n |-> 8, ms |-> <<>>]
      @@ 108 :> [k |-> "bits", signed |-> FALSE, n |-> 8, ms |-> <<>>]
      @@ 112 :> [k |-> "bits", signed |-> FALSE, n |-> 8, ms |-> <<>>]
      @@ 114 :> [k |-> "bits", signed |-> FALSE, n |-> 8, ms |-> <<>>]
      @@ 115 :> [k |-> "bits", signed |-> FALSE, n |-> 8, ms |-> <<>>]
      @@ 116 :> [k |-> "bits", signed |-> FALSE, n |-> 8, ms |-> <<>>]
      @@ 117 :> [k |-> "bits", signed |-> FALSE, n |-> 8, ms |-> <<>>]
      @@ 118 :> [k |-> "bits", signed |-> FALSE, n |-> 8, ms |-> <<>>]
      @@ 119 :> [k |-> "bits", signed |-> FALSE, n |-> 8, ms |-> <<>>]
      @@ 120 :> [k |-> "bits", signed |-> FALSE, n |-> 8, ms |-> <<>>]
      @@ 122 :> [k |-> "bits", signed |-> FALSE, n |-> 8, ms |-> <<>>]
      @@ 124 :> [k |-> "bits", signed |-> FALSE, n |-> 8, ms |-> <<>>]
      @@ 126 :> [k |-> "bits", signed |-> FALSE, n |-> 8, ms |-> <<>>]
      @@ 128 :> [k |-> "bits", signed |-> FALSE, n |-> 8, ms |-> <<>>]
      @@ 129 :> [k |-> "bits", signed |-> FALSE, n |-> 8, ms |-> <<>>]
      @@ 130 :> [k |-> "bits", signed |-> FALSE, n |-> 8, ms |-> <<>>])
  @@ (131 :> [k |-> "bits", signed |-> FALSE, n |-> 8, ms |-> <<>>]
      @@ 133 :> [k |-> "bits", signed |-> FALSE, n |-> 8, ms |-> <<>>]
      @@ 137 :> [k |-> "bits", signed |-> FALSE, n |-> 8, ms |-> <<>>]
      @@ 139 :> [k |-> "bits", signed |-> FALSE, n |-> 8, ms |-> <<>>]
      @@ 141 :> [k |-> "bits", signed |-> FALSE, n |-> 8, ms |-> <<>>]
      @@ 142 :> [k |-> "bits", signed |-> FALSE, n |-> 8, ms |-> <<>>]
      @@ 143 :> [k |-> "bits", signed |-> FALSE, n |-> 8, ms |-> <<>>]
      @@ 144 :> [k |-> "bits", signed |-> FALSE, n |-> 8, ms |-> <<>>]
      @@ 148 :> [k |-> "bits", signed |-> FALSE, n |-> 8, ms |-> <<>>]
      @@ 150 :> [k |-> "bits", signed |-> FALSE, n |-> 8, ms |-> <<>>]
      @@ 151 :> [k |-> "bits", signed |-> FALSE, n |-> 8, ms |-> <<>>]
      @@ 152 :> [k |-> "bits", signed |-> FALSE, n |-> 8, ms |-> <<>>]
      @@ 154 :> [k |-> "bits", signed |-> FALSE, n |-> 8, ms |-> <<>>]
      @@ 155 :> [k |-> "bits", signed |-> FALSE, n |-> 8, ms |-> <<>>]
      @@ 156 :> [k |-> "bits", signed |-> FALSE, n |-> 8, ms |-> <<>>]
      @@ 157 :> [k |-> "bits", signed |-> FALSE, n |-> 8, ms |-> <<>>]
      @@ 158 :> [k |-> "bits", signed |-> FALSE, n |-> 8, ms |-> <<>>]
      @@ 159 :> [k |-> "bits", signed |-> FALSE, n |-> 8, ms |-> <<>>]
      @@ 161 :> [k |-> "bits", signed |-> FALSE, n |-> 1, ms |-> <<>>]
      @@ 162 :> [k |-> "bits", signed |-> FALSE, n |-> 1, ms |-> <<>>])
  @@ (163 :> [k |-> "bits", signed |-> FALSE, n |-> 8, ms |-> <<>>]
      @@ 164 :> [k |-> "bits", signed |-> FALSE, n |-> 8, ms |-> <<>>]
      @@ 165 :> [k |-> "bits", signed |-> FALSE, n |-> 8, ms |-> <<>>]
      @@ 166 :> [k |-> "bits", signed |-> FALSE, n |-> 8, ms |-> <<>>]
      @@ 167 :> [k |-> "bits", signed |-> FALSE, n |-> 8, ms |-> <<>>]
      @@ 168 :> [k |-> "bits", signed |-> FALSE, n |-> 8, ms |-> <<>>]
      @@ 169 :> [k |-> "bits", signed |-> FALSE, n |-> 8, ms |-> <<>>]
      @@ 170 :> [k |-> "tuple", signed |-> FALSE, n |-> 2, ms |-> <<[k |-> "bits", signed |-> FALSE, n |-> 8, ms |-> <<>>], [k |-> "bits", signed |-> FALSE, n |-> 8, ms |-> <<>>]>>]
      @@ 171 :> [k |-> "bits", signed |-> FALSE, n |-> 8, ms |-> <<>>]
      @@ 175 :> [k |-> "bits", signed |-> FALSE, n |-> 8, ms |-> <<>>]
      @@ 177 :> [k |-> "bits", signed |-> FALSE, n |-> 8, ms |-> <<>>]
      @@ 179 :> [k |-> "bits", signed |-> FALSE, n |-> 8, ms |-> <<>>]
      @@ 180 :> [k |-> "bits", signed |-> FALSE, n |-> 8, ms |-> <<>>]
      @@ 181 :> [k |-> "bits", signed |-> FALSE, n |-> 8, ms |-> <<>>]
      @@ 182 :> [k |-> "tuple", signed |-> FALSE, n |-> 2, ms |-> <<[k |-> "bits", signed |-> FALSE, n |-> 8, ms |-> <<>>], [k |-> "bits", signed |-> FALSE, n |-> 8, ms |-> <<>>]>>]
      @@ 184 :> [k |-> "bits", signed |-> FALSE, n |-> 8, ms |-> <<>>]
      @@ 185 :> [k |-> "bits", signed |-> FALSE, n |-> 8, ms |-> <<>>]
      @@ 186 :> [k |-> "tuple", signed |-> FALSE, n |-> 2, ms |-> <<[k |-> "bits", signed |-> FALSE, n |-> 8, ms |-> <<>>], [k |-> "bits", signed |-> FALSE, n |-> 8, ms |-> <<>>]>>]
      @@ 188 :> [k |-> "bits", signed |-> FALSE, n |-> 8, ms |-> <<>>]
      @@ 189 :> [k |-> "bits", signed |-> FALSE, n |-> 8, ms |-> <<>>])
  @@ (190 :> [k |-> "bits", signed |-> FALSE, n |-> 8, ms |-> <<>>]
      @@ 191 :> [k |-> "tuple", signed |-> FALSE, n |-> 2, ms |-> <<[k |-> "bits", signed |-> FALSE, n |-> 8, ms |-> <<>>], [k |-> "bits", signed |-> FALSE, n |-> 8, ms |-> <<>>]>>]
      @@ 192 :> [k |-> "bits", signed |-> FALSE, n |-> 8, ms |-> <<>>]
      @@ 193 :> [k |-> "bits", signed |-> FALSE, n |-> 8, ms |-> <<>>]
      @@ 195 :> [k |-> "bits", signed |-> FALSE, n |-> 8, ms |-> <<>>]
      @@ 196 :> [k |-> "bits", signed |-> FALSE, n |-> 8, ms |-> <<>>]
      @@ 197 :> [k |-> "bits", signed |-> FALSE, n |-> 8, ms |-> <<>>]
      @@ 198 :> [k |-> "bits", signed |-> FALSE, n |-> 8, ms |-> <<>>]
      @@ 199 :> [k |-> "bits", signed |-> FALSE, n |-> 8, ms |-> <<>>]
      @@ 200 :> [k |-> "bits", signed |-> FALSE, n |-> 8, ms |-> <<>>]
      @@ 202 :> [k |-> "bits", signed |-> FALSE, n |-> 8, ms |-> <<>>]
      @@ 203 :> [k |-> "bits", signed |-> FALSE, n |-> 8, ms |-> <<>>]
      @@ 205 :> [k |-> "bits", signed |-> FALSE, n |-> 8, ms |-> <<>>]
      @@ 206 :> [k |-> "bits", signed |-> FALSE, n |-> 8, ms |-> <<>>]
      @@ 207 :> [k |-> "bits", signed |-> FALSE, n |-> 8, ms |-> <<>>]
      @@ 208 :> [k |-> "bits", signed |-> TRUE, n |-> 8, ms |-> <<>>]
      @@ 209 :> [k |-> "bits", signed |-> FALSE, n |-> 8, ms |-> <<>>]
      @@ 210 :> [k |-> "enum", signed |-> FALSE, n |-> 8, ms |-> <<>>]
      @@ 211 :> [k |-> "bits", signed |-> TRUE, n |-> 8, ms |-> <<>>]
      @@ 212 :> [k |-> "bits", signed |-> FALSE, n |-> 8, ms |-> <<>>])
  @@ (213 :> [k |-> "bits", signed |-> TRUE, n |-> 8, ms |-> <<>>]
      @@ 214 :> [k |-> "bits", signed |-> FALSE, n |-> 8, ms |-> <<>>]
      @@ 215 :> [k |-> "bits", signed |-> TRUE, n |-> 8, ms |-> <<>>]
      @@ 216 :> [k |-> "bits", signed |-> FALSE, n |-> 8, ms |-> <<>>]
      @@ 217 :> [k |-> "bits", signed |-> TRUE, n |-> 8, ms |-> <<>>]
      @@ 218 :> [k |-> "bits", signed |-> FALSE, n |-> 8, ms |-> <<>>]
      @@ 219 :> [k |-> "bits", signed |-> TRUE, n |-> 8, ms |-> <<>>]
      @@ 220 :> [k |-> "bits", signed |-> FALSE, n |-> 8, ms |-> <<>>]
      @@ 221 :> [k |-> "bits", signed |-> TRUE, n |-> 8, ms |-> <<>>]
      @@ 222 :> [k |-> "bits", signed |-> FALSE, n |-> 8, ms |-> <<>>]
      @@ 223 :> [k |-> "bits", signed |-> TRUE, n |-> 8, ms |-> <<>>]
      @@ 224 :> [k |-> "bits", signed |-> FALSE, n |-> 8, ms |-> <<>>]
      @@ 225 :> [k |-> "bits", signed |-> TRUE, n |-> 8, ms |-> <<>>]
      @@ 226 :> [k |-> "bits", signed |-> FALSE, n |-> 8, ms |-> <<>>]
      @@ 227 :> [k |-> "bits", signed |-> TRUE, n |-> 8, ms |-> <<>>]
      @@ 228 :> [k |-> "bits", signed |-> FALSE, n |-> 8, ms |-> <<>>]
      @@ 229 :> [k |-> "bits", signed |-> TRUE, n |-> 8, ms |-> <<>>]
      @@ 230 :> [k |-> "bits", signed |-> FALSE, n |-> 8, ms |-> <<>>]
      @@ 231 :> [k |-> "bits", signed |-> TRUE, n |-> 8, ms |-> <<>>]
      @@ 232 :> [k |-> "bits", signed |-> FALSE, n |-> 8, ms |-> <<>>])
  @@ (233 :> [k |-> "bits", signed |-> TRUE, n |-> 8, ms |-> <<>>]
      @@ 234 :> [k |-> "bits", signed |-> FALSE, n |-> 8, ms |-> <<>>]
      @@ 235 :> [k |-> "bits", signed |-> TRUE, n |-> 8, ms |-> <<>>]
      @@ 236 :> [k |-> "bits", signed |-> FALSE, n |-> 8, ms |-> <<>>]
      @@ 237 :> [k |-> "bits", signed |-> FALSE, n |-> 1, ms |-> <<>>]
      @@ 238 :> [k |-> "bits", signed |-> FALSE, n |-> 8, ms |-> <<>>]
      @@ 239 :> [k |-> "bits", signed |-> TRUE, n |-> 8, ms |-> <<>>]
      @@ 240 :> [k |-> "bits", signed |-> FALSE, n |-> 1, ms |-> <<>>]
      @@ 241 :> [k |-> "bits", signed |-> TRUE, n |-> 8, ms |-> <<>>]
      @@ 242 :> [k |-> "bits", signed |-> FALSE, n |-> 8, ms |-> <<>>]
      @@ 243 :> [k |-> "bits", signed |-> FALSE, n |-> 1, ms |-> <<>>]
      @@ 244 :> [k |-> "bits", signed |-> FALSE, n |-> 8, ms |-> <<>>]
      @@ 245 :> [k |-> "bits", signed |-> TRUE, n |-> 8, ms |-> <<>>]
      @@ 246 :> [k |-> "bits", signed |-> FALSE, n |-> 1, ms |-> <<>>]
      @@ 247 :> [k |-> "bits", signed |-> TRUE, n |-> 8, ms |-> <<>>]
      @@ 248 :> [k |-> "bits", signed |-> FALSE, n |-> 8, ms |-> <<>>]
      @@ 249 :> [k |-> "bits", signed |-> FALSE, n |-> 1, ms |-> <<>>]
      @@ 250 :> [k |-> "bits", signed |-> FALSE, n |-> 8, ms |-> <<>>]
      @@ 251 :> [k |-> "bits", signed |-> TRUE, n |-> 8, ms |-> <<>>]
      @@ 252 :> [k |-> "bits", signed |-> FALSE, n |-> 1, ms |-> <<>>])
  @@ (253 :> [k |-> "bits", signed |-> TRUE, n |-> 8, ms |-> <<>>]
      @@ 254 :> [k |-> "bits", signed |-> FALSE, n |-> 8, ms |-> <<>>]
      @@ 255 :> [k |-> "bits", signed |-> FALSE, n |-> 1, ms |-> <<>>]
      @@ 256 :> [k |-> "bits", signed |-> FALSE, n |-> 8, ms |-> <<>>]
      @@ 257 :> [k |-> "bits", signed |-> TRUE, n |-> 8, ms |-> <<>>]
      @@ 258 :> [k |-> "bits", signed |-> FALSE, n |-> 1, ms |-> <<>>]
      @@ 259 :> [k |-> "bits", signed |-> TRUE, n |-> 8, ms |-> <<>>]
      @@ 260 :> [k |-> "bits", signed |-> FALSE, n |-> 8, ms |-> <<>>]
      @@ 261 :> [k |-> "bits", signed |-> FALSE, n |-> 1, ms |-> <<>>]
      @@ 262 :> [k |-> "bits", signed |-> FALSE, n |-> 8, ms |-> <<>>]
      @@ 263 :> [k |-> "bits", signed |-> TRUE, n |-> 8, ms |-> <<>>]
      @@ 264 :> [k |-> "bits", signed |-> FALSE, n |-> 1, ms |-> <<>>]
      @@ 265 :> [k |-> "bits", signed |-> TRUE, n |-> 8, ms |-> <<>>]
      @@ 266 :> [k |-> "bits", signed |-> FALSE, n |-> 8, ms |-> <<>>]
      @@ 267 :> [k |-> "bits", signed |-> FALSE, n |-> 1, ms |-> <<>>]
      @@ 268 :> [k |-> "bits", signed |-> FALSE, n |-> 8, ms |-> <<>>]
      @@ 269 :> [k |-> "bits", signed |-> TRUE, n |-> 8, ms |-> <<>>]
      @@ 270 :> [k |-> "bits", signed |-> FALSE, n |-> 1, ms |-> <<>>]
      @@ 271 :> [k |-> "bits", signed |-> TRUE, n |-> 8, ms |-> <<>>]
      @@ 272 :> [k |-> "bits", signed |-> FALSE, n |-> 8, ms |-> <<>>])
  @@ (273 :> [k |-> "bits", signed |-> TRUE, n |-> 8, ms |-> <<>>]
      @@ 274 :> [k |-> "bits", signed |-> FALSE, n |-> 8, ms |-> <<>>]
      @@ 275 :> [k |-> "bits", signed |-> TRUE, n |-> 8, ms |-> <<>>]
      @@ 276 :> [k |-> "bits", signed |-> FALSE, n |-> 8, ms |-> <<>>]
      @@ 277 :> [k |-> "bits", signed |-> TRUE, n |-> 8, ms |-> <<>>]
      @@ 278 :> [k |-> "bits", signed |-> FALSE, n |-> 8, ms |-> <<>>]
      @@ 279 :> [k |-> "bits", signed |-> TRUE, n |-> 8, ms |-> <<>>]
      @@ 280 :> [k |-> "bits", signed |-> FALSE, n |-> 8, ms |-> <<>>]
      @@ 281 :> [k |-> "bits", signed |-> TRUE, n |-> 8, ms |-> <<>>]
      @@ 282 :> [k |-> "bits", signed |-> FALSE, n |-> 8, ms |-> <<>>]
      @@ 283 :> [k |-> "bits", signed |-> TRUE, n |-> 8, ms |-> <<>>]
      @@ 284 :> [k |-> "bits", signed |-> FALSE, n |-> 8, ms |-> <<>>]
      @@ 285 :> [k |-> "bits", signed |-> TRUE, n |-> 8, ms |-> <<>>]
      @@ 286 :> [k |-> "bits", signed |-> FALSE, n |-> 8, ms |-> <<>>]
      @@ 287 :> [k |-> "bits", signed |-> TRUE, n |-> 8, ms |-> <<>>]
      @@ 288 :> [k |-> "bits", signed |-> FALSE, n |-> 8, ms |-> <<>>]
      @@ 289 :> [k |-> "bits", signed |-> TRUE, n |-> 8, ms |-> <<>>]
      @@ 290 :> [k |-> "bits", signed |-> FALSE, n |-> 8, ms |-> <<>>]
      @@ 291 :> [k |-> "bits", signed |-> TRUE, n |-> 8, ms |-> <<>>]
      @@ 292 :> [k |-> "bits", signed |-> FALSE, n |-> 8, ms |-> <<>>])
  @@ (293 :> [k |-> "bits", signed |-> TRUE, n |-> 8, ms |-> <<>>]
      @@ 294 :> [k |-> "bits", signed |-> FALSE, n |-> 8, ms |-> <<>>]
      @@ 295 :> [k |-> "bits", signed |-> TRUE, n |-> 8, ms |-> <<>>]
      @@ 296 :> [k |-> "bits", signed |-> FALSE, n |-> 8, ms |-> <<>>]
      @@ 297 :> [k |-> "bits", signed |-> TRUE, n |-> 8, ms |-> <<>>]
      @@ 298 :> [k |-> "bits", signed |-> FALSE, n |-> 8, ms |-> <<>>]
      @@ 299 :> [k |-> "bits", signed |-> TRUE, n |-> 8, ms |-> <<>>]
      @@ 300 :> [k |-> "bits", signed |-> FALSE, n |-> 8, ms |-> <<>>]
      @@ 301 :> [k |-> "bits", signed |-> TRUE, n |-> 8, ms |-> <<>>]
      @@ 302 :> [k |-> "bits", signed |-> FALSE, n |-> 8, ms |-> <<>>]
      @@ 303 :> [k |-> "bits", signed |-> TRUE, n |-> 8, ms |-> <<>>]
      @@ 304 :> [k |-> "bits", signed |-> FALSE, n |-> 8, ms |-> <<>>]
      @@ 305 :> [k |-> "bits", signed |-> TRUE, n |-> 8, ms |-> <<>>]
      @@ 306 :> [k |-> "bits", signed |-> FALSE, n |-> 8, ms |-> <<>>]
      @@ 307 :> [k |-> "bits", signed |-> TRUE, n |-> 8, ms |-> <<>>]
      @@ 308 :> [k |-> "bits", signed |-> FALSE, n |-> 8, ms |-> <<>>]
      @@ 309 :> [k |-> "bits", signed |-> TRUE, n |-> 8, ms |-> <<>>]
      @@ 310 :> [k |-> "bits", signed |-> FALSE, n |-> 8, ms |-> <<>>]
      @@ 311 :> [k |-> "bits", signed |-> TRUE, n |-> 8, ms |-> <<>>]
      @@ 312 :> [k |-> "bits", signed |-> FALSE, n |-> 8, ms |-> <<>>])
  @@ (313 :> [k |-> "bits", signed |-> TRUE, n |-> 8, ms |-> <<>>]
      @@ 314 :> [k |-> "bits", signed |-> FALSE, n |-> 8, ms |-> <<>>]
      @@ 315 :> [k |-> "bits", signed |-> TRUE, n |-> 8, ms |-> <<>>]
      @@ 316 :> [k |-> "bits", signed |-> FALSE, n |-> 8, ms |-> <<>>]
      @@ 317 :> [k |-> "bits", signed |-> TRUE, n |-> 8, ms |-> <<>>]
      @@ 318 :> [k |-> "bits", signed |-> FALSE, n |-> 8, ms |-> <<>>]
      @@ 319 :> [k |-> "enum", signed |-> FALSE, n |-> 8, ms |-> <<>>]
      @@ 320 :> [k |-> "enum", signed |-> FALSE, n |-> 8, ms |-> <<>>]
      @@ 321 :> [k |-> "bits", signed |-> FALSE, n |-> 1, ms |-> <<>>]
      @@ 322 :> [k |-> "enum", signed |-> FALSE, n |-> 8, ms |-> <<>>]
      @@ 323 :> [k |-> "enum", signed |-> FALSE, n |-> 8, ms |-> <<>>]
      @@ 324 :> [k |-> "bits", signed |-> FALSE, n |-> 1, ms |-> <<>>]
      @@ 325 :> [k |-> "bits", signed |-> FALSE, n |-> 8, ms |-> <<>>]
      @@ 326 :> [k |-> "bits", signed |-> TRUE, n |-> 4, ms |-> <<>>]
      @@ 327 :> [k |-> "bits", signed |-> FALSE, n |-> 4, ms |-> <<>>]
      @@ 328 :> [k |-> "array", signed |-> FALSE, n |-> 4, ms |-> <<[k |-> "bits", signed |-> FALSE, n |-> 2, ms |-> <<>>]>>]
      @@ 329 :> [k |-> "enum", signed |-> FALSE, n |-> 8, ms |-> <<>>]
      @@ 330 :> [k |-> "bits", signed |-> FALSE, n |-> 8, ms |-> <<>>]
      @@ 331 :> [k |-> "bits", signed |-> FALSE, n |-> 4, ms |-> <<>>]
      @@ 332 :> [k |-> "bits", signed |-> FALSE, n |-> 4, ms |-> <<>>])
  @@ (333 :> [k |-> "bits", signed |-> FALSE, n |-> 8, ms |-> <<>>]
      @@ 334 :> [k |-> "bits", signed |-> TRUE, n |-> 4, ms |-> <<>>]
      @@ 335 :> [k |-> "bits", signed |-> TRUE, n |-> 8, ms |-> <<>>]
      @@ 336 :> [k |-> "bits", signed |-> TRUE, n |-> 4, ms |-> <<>>]
      @@ 337 :> [k |-> "bits", signed |-> FALSE, n |-> 8, ms |-> <<>>]
      @@ 338 :> [k |-> "bits", signed |-> TRUE, n |-> 4, ms |-> <<>>]
      @@ 339 :> [k |-> "bits", signed |-> FALSE, n |-> 4, ms |-> <<>>]
      @@ 340 :> [k |-> "bits", signed |-> FALSE, n |-> 4, ms |-> <<>>]
      @@ 341 :> [k |-> "bits", signed |-> TRUE, n |-> 4, ms |-> <<>>]
      @@ 342 :> [k |-> "bits", signed |-> FALSE, n |-> 8, ms |-> <<>>]
      @@ 343 :> [k |-> "bits", signed |-> TRUE, n |-> 4, ms |-> <<>>]
      @@ 344 :> [k |-> "enum", signed |-> FALSE, n |-> 8, ms |-> <<>>]
      @@ 345 :> [k |-> "bits", signed |-> FALSE, n |-> 8, ms |-> <<>>]
      @@ 346 :> [k |-> "enum", signed |-> FALSE, n |-> 8, ms |-> <<>>]
      @@ 347 :> [k |-> "bits", signed |-> FALSE, n |-> 4, ms |-> <<>>]
      @@ 348 :> [k |-> "bits", signed |-> FALSE, n |-> 8, ms |-> <<>>]
      @@ 349 :> [k |-> "array", signed |-> FALSE, n |-> 4, ms |-> <<[k |-> "bits", signed |-> FALSE, n |-> 2, ms |-> <<>>]>>]
      @@ 350 :> [k |-> "bits", signed |-> FALSE, n |-> 8, ms |-> <<>>]
      @@ 351 :> [k |-> "array", signed |-> FALSE, n |-> 2, ms |-> <<[k |-> "bits", signed |-> FALSE, n |-> 4, ms |-> <<>>]>>]
      @@ 352 :> [k |-> "bits", signed |-> FALSE, n |-> 8, ms |-> <<>>])
  @@ (353 :> [k |-> "array", signed |-> FALSE, n |-> 1, ms |-> <<[k |-> "bits", signed |-> FALSE, n |-> 8, ms |-> <<>>]>>]
      @@ 354 :> [k |-> "array", signed |-> FALSE, n |-> 4, ms |-> <<[k |-> "bits", signed |-> FALSE, n |-> 2, ms |-> <<>>]>>]
      @@ 355 :> [k |-> "bits", signed |-> FALSE, n |-> 8, ms |-> <<>>]
      @@ 356 :> [k |-> "bits", signed |-> FALSE, n |-> 8, ms |-> <<>>]
      @@ 358 :> [k |-> "array", signed |-> FALSE, n |-> 3, ms |-> <<[k |-> "bits", signed |-> FALSE, n |-> 8, ms |-> <<>>]>>]
      @@ 359 :> [k |-> "array", signed |-> FALSE, n |-> 2, ms |-> <<[k |-> "bits", signed |-> FALSE, n |-> 4, ms |-> <<>>]>>]
      @@ 360 :> [k |-> "array", signed |-> FALSE, n |-> 3, ms |-> <<[k |-> "bits", signed |-> FALSE, n |-> 8, ms |-> <<>>]>>]
      @@ 369 :> [k |-> "array", signed |-> FALSE, n |-> 3, ms |-> <<[k |-> "bits", signed |-> FALSE, n |-> 8, ms |-> <<>>]>>]
      @@ 371 :> [k |-> "array", signed |-> FALSE, n |-> 3, ms |-> <<[k |-> "bits", signed |-> FALSE, n |-> 8, ms |-> <<>>]>>]
      @@ 372 :> [k |-> "array", signed |-> FALSE, n |-> 3, ms |-> <<[k |-> "bits", signed |-> FALSE, n |-> 8, ms |-> <<>>]>>]
      @@ 374 :> [k |-> "array", signed |-> FALSE, n |-> 3, ms |-> <<[k |-> "bits", signed |-> FALSE, n |-> 8, ms |-> <<>>]>>]
      @@ 375 :> [k |-> "array", signed |-> FALSE, n |-> 3, ms |-> <<[k |-> "bits", signed |-> FALSE, n |-> 8, ms |-> <<>>]>>]
      @@ 377 :> [k |-> "array", signed |-> FALSE, n |-> 3, ms |-> <<[k |-> "bits", signed |-> FALSE, n |-> 8, ms |-> <<>>]>>]
      @@ 378 :> [k |-> "array", signed |-> FALSE, n |-> 2, ms |-> <<[k |-> "bits", signed |-> FALSE, n |-> 4, ms |-> <<>>]>>]
      @@ 380 :> [k |-> "array", signed |-> FALSE, n |-> 2, ms |-> <<[k |-> "bits", signed |-> FALSE, n |-> 4, ms |-> <<>>]>>]
      @@ 381 :> [k |-> "array", signed |-> FALSE, n |-> 3, ms |-> <<[k |-> "bits", signed |-> FALSE, n |-> 8, ms |-> <<>>]>>]
      @@ 383 :> [k |-> "array", signed |-> FALSE, n |-> 3, ms |-> <<[k |-> "bits", signed |-> FALSE, n |-> 8, ms |-> <<>>]>>]
      @@ 384 :> [k |-> "array", signed |-> FALSE, n |-> 3, ms |-> <<[k |-> "bits", signed |-> FALSE, n |-> 8, ms |-> <<>>]>>]
      @@ 386 :> [k |-> "array", signed |-> FALSE, n |-> 3, ms |-> <<[k |-> "bits", signed |-> FALSE, n |-> 8, ms |-> <<>>]>>]
      @@ 387 :> [k |-> "array", signed |-> FALSE, n |-> 3, ms |-> <<[k |-> "bits", signed |-> FALSE, n |-> 8, ms |-> <<>>]>>])
  @@ (389 :> [k |-> "array", signed |-> FALSE, n |-> 3, ms |-> <<[k |-> "bits", signed |-> FALSE, n |-> 8, ms |-> <<>>]>>]
      @@ 390 :> [k |-> "array", signed |-> FALSE, n |-> 3, ms |-> <<[k |-> "bits", signed |-> FALSE, n |-> 8, ms |-> <<>>]>>]
      @@ 392 :> [k |-> "array", signed |-> FALSE, n |-> 3, ms |-> <<[k |-> "bits", signed |-> FALSE, n |-> 8, ms |-> <<>>]>>]
      @@ 393 :> [k |-> "array", signed |-> FALSE, n |-> 3, ms |-> <<[k |-> "bits", signed |-> FALSE, n |-> 8, ms |-> <<>>]>>]
      @@ 395 :> [k |-> "array", signed |-> FALSE, n |-> 3, ms |-> <<[k |-> "bits", signed |-> FALSE, n |-> 8, ms |-> <<>>]>>]
      @@ 396 :> [k |-> "array", signed |-> FALSE, n |-> 3, ms |-> <<[k |-> "bits", signed |-> FALSE, n |-> 8, ms |-> <<>>]>>]
      @@ 398 :> [k |-> "array", signed |-> FALSE, n |-> 3, ms |-> <<[k |-> "bits", signed |-> FALSE, n |-> 8, ms |-> <<>>]>>]
      @@ 399 :> [k |-> "array", signed |-> FALSE, n |-> 3, ms |-> <<[k |-> "bits", signed |-> FALSE, n |-> 8, ms |-> <<>>]>>]
      @@ 400 :> [k |-> "bits", signed |-> FALSE, n |-> 8, ms |-> <<>>]
      @@ 401 :> [k |-> "array", signed |-> FALSE, n |-> 3, ms |-> <<[k |-> "bits", signed |-> FALSE, n |-> 8, ms |-> <<>>]>>]
      @@ 402 :> [k |-> "array", signed |-> FALSE, n |-> 3, ms |-> <<[k |-> "bits", signed |-> FALSE, n |-> 8, ms |-> <<>>]>>]
      @@ 403 :> [k |-> "bits", signed |-> FALSE, n |-> 8, ms |-> <<>>]
      @@ 404 :> [k |-> "array", signed |-> FALSE, n |-> 3, ms |-> <<[k |-> "bits", signed |-> FALSE, n |-> 8, ms |-> <<>>]>>]
      @@ 405 :> [k |-> "bits", signed |-> FALSE, n |-> 8, ms |-> <<>>]
      @@ 406 :> [k |-> "bits", signed |-> FALSE, n |-> 8, ms |-> <<>>]
      @@ 407 :> [k |-> "bits", signed |-> FALSE, n |-> 8, ms |-> <<>>]
      @@ 408 :> [k |-> "bits", signed |-> FALSE, n |-> 8, ms |-> <<>>]
      @@ 410 :> [k |-> "bits", signed |-> FALSE, n |-> 8, ms |-> <<>>]
      @@ 412 :> [k |-> "tuple", signed |-> FALSE, n |-> 2, ms |-> <<[k |-> "bits", signed |-> FALSE, n |-> 8, ms |-> <<>>], [k |-> "bits", signed |-> FALSE, n |-> 8, ms |-> <<>>]>>]
      @@ 413 :> [k |-> "bits", signed |-> FALSE, n |-> 8, ms |-> <<>>])
  @@ (414 :> [k |-> "tuple", signed |-> FALSE, n |-> 2, ms |-> <<[k |-> "bits", signed |-> FALSE, n |-> 8, ms |-> <<>>], [k |-> "bits", signed |-> FALSE, n |-> 8, ms |-> <<>>]>>]
      @@ 415 :> [k |-> "tuple", signed |-> FALSE, n |-> 2, ms |-> <<[k |-> "bits", signed |-> FALSE, n |-> 8, ms |-> <<>>], [k |-> "bits", signed |-> FALSE, n |-> 8, ms |-> <<>>]>>]
      @@ 416 :> [k |-> "bits", signed |-> FALSE, n |-> 8, ms |-> <<>>]
      @@ 417 :> [k |-> "bits", signed |-> FALSE, n |-> 8, ms |-> <<>>]
      @@ 418 :> [k |-> "bits", signed |-> FALSE, n |-> 8, ms |-> <<>>]
      @@ 420 :> [k |-> "bits", signed |-> FALSE, n |-> 8, ms |-> <<>>]
      @@ 422 :> [k |-> "bits", signed |-> FALSE, n |-> 8, ms |-> <<>>]
      @@ 423 :> [k |-> "bits", signed |-> FALSE, n |-> 8, ms |-> <<>>]
      @@ 425 :> [k |-> "bits", signed |-> FALSE, n |-> 8, ms |-> <<>>]
      @@ 426 :> [k |-> "bits", signed |-> FALSE, n |-> 8, ms |-> <<>>]
      @@ 427 :> [k |-> "array", signed |-> FALSE, n |-> 3, ms |-> <<[k |-> "bits", signed |-> FALSE, n |-> 8, ms |-> <<>>]>>]
      @@ 428 :> [k |-> "array", signed |-> FALSE, n |-> 2, ms |-> <<[k |-> "bits", signed |-> FALSE, n |-> 4, ms |-> <<>>]>>]
      @@ 430 :> [k |-> "array", signed |-> FALSE, n |-> 3, ms |-> <<[k |-> "bits", signed |-> FALSE, n |-> 8, ms |-> <<>>]>>]
      @@ 432 :> [k |-> "array", signed |-> FALSE, n |-> 3, ms |-> <<[k |-> "bits", signed |-> FALSE, n |-> 8, ms |-> <<>>]>>]
      @@ 433 :> [k |-> "array", signed |-> FALSE, n |-> 2, ms |-> <<[k |-> "bits", signed |-> FALSE, n |-> 4, ms |-> <<>>]>>]
      @@ 435 :> [k |-> "array", signed |-> FALSE, n |-> 2, ms |-> <<[k |-> "bits", signed |-> FALSE, n |-> 4, ms |-> <<>>]>>])

InvocationBindings ==
  371 :> [null |-> FALSE, items |-> <<[identifier |-> "N", value |-> 8]>>]
  @@ 374 :> [null |-> FALSE, items |-> <<[identifier |-> "N", value |-> 8]>>]
  @@ 377 :> [null |-> FALSE, items |-> <<[identifier |-> "N", value |-> 8]>>]
  @@ 380 :> [null |-> FALSE, items |-> <<[identifier |-> "N", value |-> 4]>>]
  @@ 386 :> [null |-> FALSE, items |-> <<[identifier |-> "N", value |-> 8]>>]
  @@ 389 :> [null |-> FALSE, items |-> <<>>]
  @@ 392 :> [null |-> FALSE, items |-> <<[identifier |-> "N", value |-> 8]>>]
  @@ 398 :> [null |-> FALSE, items |-> <<>>]
  @@ 401 :> [null |-> FALSE, items |-> <<>>]
  @@ 404 :> [null |-> FALSE, items |-> <<>>]
  @@ 432 :> [null |-> FALSE, items |-> <<>>]
  @@ 435 :> [null |-> FALSE, items |-> <<>>]

Functions ==
  <<
  [name |-> "not", params |-> <<1>>, entries |-> <<3, 2>>, body |-> 3,
   module |-> <<"m">>, constant_defs |-> <<>>],
  [name |-> "ge", params |-> <<4, 5>>, entries |-> <<8>>, body |-> 8,
   module |-> <<"m">>, constant_defs |-> <<>>],
  [name |-> "let_leaf", params |-> <<>>, entries |-> <<14, 12>>, body |-> 14,
   module |-> <<"m">>, constant_defs |-> <<>>],
  [name |-> "let_tuple", params |-> <<15>>, entries |-> <<26>>, body |-> 26,
   module |-> <<"m">>, constant_defs |-> <<>>],
  [name |-> "let_deep", params |-> <<27>>, entries |-> <<47>>, body |-> 47,
   module |-> <<"m">>, constant_defs |-> <<>>],
  [name |-> "match3", params |-> <<48>>, entries |-> <<62>>, body |-> 62,
   module |-> <<"m">>, constant_defs |-> <<>>],
  [name |-> "match1", params |-> <<63>>, entries |-> <<69>>, body |-> 69,
   module |-> <<"m">>, constant_defs |-> <<>>],
  [name |-> "match_multi", params |-> <<70>>, entries |-> <<84>>, body |-> 84,
   module |-> <<"m">>, constant_defs |-> <<>>],
  [name |-> "match_tuple", params |-> <<85, 86>>, entries |-> <<102>>, body |-> 102,
   module |-> <<"m">>, constant_defs |-> <<>>],
  [name |-> "match_enum", params |-> <<103>>, entries |-> <<114>>, body |-> 114,
   module |-> <<"m">>, constant_defs |-> <<>>],
  [name |-> "match_noarms", params |-> <<115>>, entries |-> <<117>>, body |-> 117,
   module |-> <<"m">>, constant_defs |-> <<>>],
  [name |-> "match_refutable", params |-> <<118>>, entries |-> <<128>>, body |-> 128,
   module |-> <<"m">>, constant_defs |-> <<>>],
  [name |-> "match_multi_default", params |-> <<129>>, entries |-> <<141>>, body |-> 141,
   module |-> <<"m">>, constant_defs |-> <<>>],
  [name |-> "match_multi_refutable", params |-> <<142>>, entries |-> <<150>>, body |-> 150,
   module |-> <<"m">>, constant_defs |-> <<>>],
  [name |-> "const_add", params |-> <<154>>, entries |-> <<153, 157>>, body |-> 157,
   module |-> <<"m">>, constant_defs |-> <<153>>],
  [name |-> "colon_ref", params |-> <<161>>, entries |-> <<166, 163>>, body |-> 166,
   module |-> <<"m">>, constant_defs |-> <<>>],
  [name |-> "tuple", params |-> <<167>>, entries |-> <<170, 169>>, body |-> 170,
   module |-> <<"m">>, constant_defs |-> <<>>],
  [name |-> "untyped", params |-> <<171>>, entries |-> <<179>>, body |-> 179,
   module |-> <<"m">>, constant_defs |-> <<>>],
  [name |-> "const_tuple", params |-> <<>>, entries |-> <<182>>, body |-> 182,
   module |-> <<"m">>, constant_defs |-> <<>>],
  [name |-> "const_struct", params |-> <<>>, entries |-> <<186>>, body |-> 186,
   module |-> <<"m">>, constant_defs |-> <<>>],
  [name |-> "struct", params |-> <<188>>, entries |-> <<191>>, body |-> 191,
   module |-> <<"m">>, constant_defs |-> <<>>],
  [name |-> "const_n", params |-> <<195>>, entries |-> <<194, 198>>, body |-> 198,
   module |-> <<"a", ".", "b">>, constant_defs |-> <<194>>],
  [name |-> "const_mn", params |-> <<>>, entries |-> <<201, 204, 207>>, body |-> 207,
   module |-> <<"a", ".", "b">>, constant_defs |-> <<201, 204>>],
  [name |-> "binops", params |-> <<208, 209, 210>>, entries |-> <<213, 216, 219, 222, 225, 228, 231, 234, 237, 240, 243, 246, 249, 252, 255, 258, 261, 264, 267, 270, 273, 276, 279, 282, 285, 288, 291, 294, 297, 300, 303, 306, 309, 312, 315, 318, 321, 324>>, body |-> 213,
   module |-> <<"m">>, constant_defs |-> <<>>],
  [name |-> "casts", params |-> <<325, 326, 327, 328, 329>>, entries |-> <<331, 333, 335, 337, 339, 341, 343, 345, 347, 349, 351, 353, 355, 357>>, body |-> 331,
   module |-> <<"m">>, constant_defs |-> <<>>],
  [name |-> "maps", params |-> <<358, 359>>, entries |-> <<371, 374, 377, 380, 383, 386, 389, 392, 395, 398, 401, 404>>, body |-> 371,
   module |-> <<"m">>, constant_defs |-> <<>>],
  [name |-> "let_unbound", params |-> <<>>, entries |-> <<410>>, body |-> 410,
   module |-> <<"m">>, constant_defs |-> <<>>],
  [name |-> "splat", params |-> <<412>>, entries |-> <<415>>, body |-> 415,
   module |-> <<"m">>, constant_defs |-> <<>>],
  [name |-> "let_match", params |-> <<416>>, entries |-> <<426>>, body |-> 426,
   module |-> <<"m">>, constant_defs |-> <<>>],
  [name |-> "maps_shared", params |-> <<427, 428>>, entries |-> <<432, 435>>, body |-> 432,
   module |-> <<"m">>, constant_defs |-> <<>>]
  >>

Nodes == 1..Len(Ast)

(***************************************************************************)
(* The engine.  Handlers are functions of a context                        *)
(*   [env, ops, last, status, ret, visits, walk, levels, vec]              *)
(* env, ops, last: node_to_ir_, the function builder's nodes and           *)
(* last_expression_; status, ret: the absl::Status / StatusOr<BValue> the  *)
(* call in progress has produced; visits: the nodes the visit callback was *)
(* invoked on; walk: what HandleLet's walk did at each node; levels:       *)
(* HandleLet's stack of tuple parents; vec: a vector under construction.   *)
(*                                                                         *)
(* A handler's statements run in sequence; Only({e : c \in {step}}) is the *)
(* value of e with c bound to the context the statement `step` leaves.     *)
(***************************************************************************)

Only(S) == CHOOSE r \in S : TRUE

BValue(h) == [tag |-> "BValue", value |-> h, ir_value |-> NoValue]
CValue(ir_value, h) == [tag |-> "CValue", value |-> h, ir_value |-> ir_value]

\* A node of the function builder.
IrNode(op, operands, imm, literal, loc) ==
  [op |-> op, operands |-> operands, imm |-> imm, literal |-> literal,
   loc |-> loc, name |-> ""]

Ok(ctx) == ctx.status = "OK"
Fail(ctx, code) == [ctx EXCEPT !.status = code, !.ret = 0]
StatusOf(ctx) == [ctx EXCEPT !.ret = 0]

ToSourceLocation(node) == IF cur.emit_positions THEN node ELSE 0

\* A FunctionBuilder method: appends the node and returns its handle.
FbAdd(ctx, n) == [ctx EXCEPT !.ops = Append(@, n), !.ret = Len(ctx.ops) + 1]

\* BValue::SetName
SetName(ctx, h, name) == [ctx EXCEPT !.ops[h].name = name]

SetNodeToIr(ctx, node, value) == [ctx EXCEPT !.env = (node :> value) @@ @]

GetNodeToIr(ctx, node) == IF node \in DOMAIN ctx.env THEN <<ctx.env[node]>> ELSE <<>>

UseFabricate(ctx, node) ==
  IF node \notin DOMAIN ctx.env
    THEN FbAdd(ctx, IrNode("Literal", <<>>, <<>>, BitsValue(1, 0), 0))
  ELSE [ctx EXCEPT !.ret = ctx.env[node].value]

Use(ctx, node) ==
  IF node \notin DOMAIN ctx.env THEN Fail(ctx, "NotFound")
  ELSE IF ctx.env[node].tag = "BValue" THEN [ctx EXCEPT !.ret = ctx.env[node].value]
  ELSE [ctx EXCEPT !.ret = ctx.env[node].value]

\* The handle Use returns for a node that is present.
H(ctx, node) == ctx.env[node].value

DefAliasMove(ctx, from, to) ==
  IF from \notin DOMAIN ctx.env THEN Fail(ctx, "Internal")
  ELSE Use([ctx EXCEPT !.env = (to :> ctx.env[from]) @@
              [k \in (DOMAIN ctx.env) \ {from} |-> ctx.env[k]]], to)

DefAliasNameAlways(ctx, from, to) ==
  IF from \notin DOMAIN ctx.env THEN Fail(ctx, "Internal")
  ELSE Only({ Use(IF Ast[to].kind = "NameDef"
                    THEN SetName(c1, c1.env[from].value, Ast[to].identifier)
                  ELSE c1, to) :
              c1 \in {SetNodeToIr(ctx, to, ctx.env[from])} })

DefAlias(ctx, from, to) ==
  IF from \notin DOMAIN ctx.env THEN Fail(ctx, "Internal")
  ELSE Only({ Use(IF Ast[to].kind = "NameDef" /\ c1.env[from].tag = "BValue"
                    THEN SetName(c1, c1.env[from].value, Ast[to].identifier)
                  ELSE c1, to) :
              c1 \in {SetNodeToIr(ctx, to, ctx.env[from])} })

DefUnrecorded(ctx, node, n) == FbAdd(ctx, n)

DefTwice(ctx, node, n) ==
  [SetNodeToIr(FbAdd(FbAdd(ctx, n), n), node, BValue(Len(ctx.ops) + 2))
     EXCEPT !.ret = Len(ctx.ops) + 2,
            !.defs = Append(@, [node |-> node, handle |-> Len(ctx.ops) + 2])]

\* DefWithStatus / Def for an ir_func that cannot fail: n is the node ir_func
\* builds, its loc already taken from the span DefWithStatus hands ir_func.
\* defs is the history of the Def calls of the running API call.
Def(ctx, node, n) ==
  [SetNodeToIr(FbAdd(ctx, n), node, BValue(Len(ctx.ops) + 1))
     EXCEPT !.ret = Len(ctx.ops) + 1,
            !.defs = Append(@, [node |-> node, handle |-> Len(ctx.ops) + 1])]

DefConst(ctx, node, ir_value) ==
  SetNodeToIr(Def(ctx, node, IrNode("Literal", <<>>, <<>>, ir_value,
                                    ToSourceLocation(node))),
              node, CValue(ir_value, Len(ctx.ops) + 1))

\* type_info_->GetItem(node).has_value()
HasType(node) == node \in DOMAIN TypeInfo

RECURSIVE GetTotalBitCount(_)
GetTotalBitCount(t) ==
  CASE t.k \in {"bits", "enum"} -> t.n
    [] t.k = "tuple" ->
         LET RECURSIVE Sum(_)
             Sum(i) == IF i > Len(t.ms) THEN 0 ELSE GetTotalBitCount(t.ms[i]) + Sum(i + 1)
         IN  Sum(1)
    [] t.k = "array" -> t.n * GetTotalBitCount(t.ms[1])

HandleNumber(ctx, node) ==
  IF ~HasType(node) THEN Fail(ctx, "Internal")
  ELSE StatusOf(DefConst(ctx, node,
                         BitsValue(GetTotalBitCount(TypeInfo[node]), Ast[node].value)))

HandleUnop(ctx, node) ==
  Only({ IF ~Ok(c1) THEN c1
         ELSE CASE Ast[node].op = "Negate" ->
                     StatusOf(Def(c1, node, IrNode("Neg", <<c1.ret>>, <<>>, NoValue,
                                                   ToSourceLocation(node))))
                [] Ast[node].op = "Invert" ->
                     StatusOf(Def(c1, node, IrNode("Not", <<c1.ret>>, <<>>, NoValue,
                                                   ToSourceLocation(node))))
                [] OTHER -> Fail(c1, "Internal") :
         c1 \in {Use(ctx, Ast[node].operand)} })

\* The IR op HandleBinop's switch picks.
BinopIrOp(kind, signed_input) ==
  CASE kind = "Add" -> "Add"
    [] kind = "Sub" -> "Sub"
    [] kind = "Mul" -> IF signed_input THEN "SMul" ELSE "UMul"
    [] kind = "Div" -> "UDiv"
    [] kind = "Eq" -> "Eq"
    [] kind = "Ne" -> "Ne"
    [] kind = "Ge" -> IF signed_input THEN "SGe" ELSE "UGe"
    [] kind = "Gt" -> IF signed_input THEN "SGt" ELSE "UGt"
    [] kind = "Le" -> IF signed_input THEN "SLe" ELSE "ULe"
    [] kind = "Lt" -> IF signed_input THEN "SLt" ELSE "ULt"
    [] kind = "Shrl" -> "Shrl"
    [] kind = "Shll" -> "Shll"
    [] kind = "Shra" -> "Shra"
    [] kind = "Xor" -> "Xor"
    [] kind = "And" -> "And"
    [] kind = "Or" -> "Or"
    [] kind = "LogicalAnd" -> "And"
    [] kind = "LogicalOr" -> "Or"

HandleConcat(ctx, node, lhs, rhs) ==
  IF ~HasType(node) THEN Fail(ctx, "Internal")
  ELSE IF TypeInfo[node].k = "bits"
    THEN StatusOf(Def(ctx, node, IrNode("Concat", <<lhs, rhs>>, <<>>, NoValue,
                                        ToSourceLocation(node))))
  ELSE IF TypeInfo[node].k # "array" THEN Fail(ctx, "Internal")
  ELSE StatusOf(Def(ctx, node, IrNode("ArrayConcat", <<lhs, rhs>>, <<>>, NoValue,
                                      ToSourceLocation(node))))

HandleBinopRhsSigned(ctx, node) ==
  IF ~HasType(Ast[node].lhs) THEN Fail(ctx, "Internal")
  ELSE LET rhs_type == TypeInfo[Ast[node].rhs]
           signed_input == rhs_type.k = "bits" /\ rhs_type.signed
       IN  Only({ IF ~Ok(c1) THEN c1
                  ELSE Only({ IF ~Ok(c2) THEN c2
                              ELSE IF Ast[node].op = "Concat"
                                THEN HandleConcat(c2, node, c1.ret, c2.ret)
                              ELSE StatusOf(Def(c2, node,
                                     IrNode(BinopIrOp(Ast[node].op, signed_input),
                                            <<c1.ret, c2.ret>>, <<>>, NoValue,
                                            ToSourceLocation(node)))) :
                              c2 \in {Use(c1, Ast[node].rhs)} }) :
                  c1 \in {Use(ctx, Ast[node].lhs)} })

HandleBinop(ctx, node) ==
  IF ~HasType(Ast[node].lhs) THEN Fail(ctx, "Internal")
  ELSE LET lhs_type == TypeInfo[Ast[node].lhs]
           signed_input == lhs_type.k = "bits" /\ lhs_type.signed
       IN  Only({ IF ~Ok(c1) THEN c1
                  ELSE Only({ IF ~Ok(c2) THEN c2
                              ELSE IF Ast[node].op = "Concat"
                                THEN HandleConcat(c2, node, c1.ret, c2.ret)
                              ELSE StatusOf(Def(c2, node,
                                     IrNode(BinopIrOp(Ast[node].op, signed_input),
                                            <<c1.ret, c2.ret>>, <<>>, NoValue,
                                            ToSourceLocation(node)))) :
                              c2 \in {Use(c1, Ast[node].rhs)} }) :
                  c1 \in {Use(ctx, Ast[node].lhs)} })

\* The first of the nodes that Use does not find, 0 when it finds them all.
FirstMissing(ctx, nodes) ==
  IF \A i \in 1..Len(nodes) : nodes[i] \in DOMAIN ctx.env THEN 0
  ELSE nodes[CHOOSE i \in 1..Len(nodes) :
               nodes[i] \notin DOMAIN ctx.env
               /\ \A j \in 1..(i - 1) : nodes[j] \in DOMAIN ctx.env]

HandleXlsTuple(ctx, node) ==
  IF FirstMissing(ctx, Ast[node].members) # 0
    THEN Use(ctx, FirstMissing(ctx, Ast[node].members))
  ELSE StatusOf(Def(ctx, node,
                    IrNode("Tuple", [i \in 1..Len(Ast[node].members) |->
                                       H(ctx, Ast[node].members[i])],
                           <<>>, NoValue, ToSourceLocation(node))))

HandleTernary(ctx, node) ==
  LET args == <<Ast[node].test, Ast[node].consequent, Ast[node].alternate>>
  IN  IF FirstMissing(ctx, args) # 0 THEN Use(ctx, FirstMissing(ctx, args))
      ELSE StatusOf(Def(ctx, node,
                        IrNode("Select", [i \in 1..3 |-> H(ctx, args[i])],
                               <<>>, NoValue, ToSourceLocation(node))))

RECURSIVE Visit(_, _)
RECURSIVE VisitAll(_, _, _)
RECURSIVE Dispatch(_, _)
RECURSIVE HandleMatcher(_, _, _, _)
RECURSIVE MatcherMembers(_, _, _, _, _, _)

HandleConstantDef(ctx, node) ==
  Only({ IF ~Ok(c1) THEN c1
         ELSE StatusOf(DefAlias(c1, Ast[node].value, Ast[node].name_def)) :
         c1 \in {Visit(ctx, Ast[node].value)} })

HandleColonRef(ctx, node) ==
  IF Ast[node].is_import
    THEN Only({ IF ~Ok(c1) THEN c1
                ELSE StatusOf(DefAlias(c1, Ast[Ast[node].target].name_def, node)) :
                c1 \in {HandleConstantDef(ctx, Ast[node].target)} })
  ELSE Only({ IF ~Ok(c1) THEN c1
              ELSE StatusOf(DefAlias(c1, Ast[node].target, node)) :
              c1 \in {Visit(ctx, Ast[node].target)} })

(***************************************************************************)
(* HandleLet                                                               *)
(***************************************************************************)

IsLeaf(tree) == Ast[tree].leaf # 0

LevelsResizeKeep(levels, level) == levels

\* std::vector<BValue>::resize; 0 stands for a default-constructed BValue.
LevelsResize(levels, level) ==
  IF level <= Len(levels) THEN SubSeq(levels, 1, level)
  ELSE levels \o [i \in 1..(level - Len(levels)) |-> 0]

\* The lambda `walk` of HandleLet.
Walk(ctx, x, level, index) ==
  LET levels == LevelsResize(ctx.levels, level)
      loc == IF ToSourceLocation(x) # 0
               THEN ToSourceLocation(IF IsLeaf(x) THEN Ast[x].leaf ELSE x)
             ELSE 0
  IN  Only({ Only({ IF IsLeaf(x) THEN StatusOf(DefAlias(c2, x, Ast[x].leaf))
                    ELSE StatusOf(c2) :
                    c2 \in {[c1 EXCEPT
                               !.levels = Append(levels, c1.ret),
                               !.walk = Append(@, [node |-> x, level |-> level,
                                                   index |-> index,
                                                   depth |-> Len(levels),
                                                   handle |-> c1.ret])]} }) :
             c1 \in {Def(ctx, x, IrNode("TupleIndex", <<levels[Len(levels)]>>,
                                        <<index>>, NoValue, loc))} })

\* NameDefTree::DoPreorder: calls Walk on the i-th and later children of tree, each
\* followed by its own subtree; the children of the root are at level 1.
RECURSIVE DoPreorder(_, _, _, _)
DoPreorder(ctx, tree, level, i) ==
  IF ~Ok(ctx) \/ i > Len(Ast[tree].nodes) THEN ctx
  ELSE Only({ Only({ DoPreorder(c2, tree, level, i + 1) :
                     c2 \in {IF Ok(c1) /\ ~IsLeaf(Ast[tree].nodes[i])
                               THEN DoPreorder(c1, Ast[tree].nodes[i], level + 1, 1)
                             ELSE c1} }) :
              c1 \in {Walk(ctx, Ast[tree].nodes[i], level, i - 1)} })

LetBindLeafRecordFirst(c1, node) ==
  Only({ IF ~Ok(c2) THEN c2
         ELSE Only({ IF ~Ok(c3) THEN SetNodeToIr(c3, node, c3.env[Ast[node].rhs])
                     ELSE DefAlias(c3, Ast[node].body, node) :
                     c3 \in {Visit(c2, Ast[node].body)} }) :
         c2 \in {DefAlias(c1, Ast[node].rhs, Ast[Ast[node].name_def_tree].leaf)} })

\* HandleLet once the rhs is lowered, for a pattern that is a single name.
LetBindLeaf(c1, node) ==
  Only({ IF ~Ok(c2) THEN c2
         ELSE Only({ IF ~Ok(c3) THEN c3
                     ELSE DefAlias(c3, Ast[node].body, node) :
                     c3 \in {Visit(c2, Ast[node].body)} }) :
         c2 \in {DefAlias(c1, Ast[node].rhs, Ast[Ast[node].name_def_tree].leaf)} })

\* HandleLet once the rhs is lowered, for a tuple pattern.
LetBindTuple(c1, node) ==
  Only({ IF ~Ok(c2) THEN c2
         ELSE Only({ IF ~Ok(c3) THEN c3
                     ELSE Only({ IF ~Ok(c4) THEN c4
                                 ELSE DefAlias(c4, Ast[node].body, node) :
                                 c4 \in {Visit(c3, Ast[node].body)} }) :
                     c3 \in {DoPreorder([c2 EXCEPT !.levels = <<c2.ret>>],
                                        Ast[node].name_def_tree, 1, 1)} }) :
         c2 \in {Use(c1, Ast[node].rhs)} })

HandleLet(ctx, node) ==
  Only({ IF ~Ok(c1) THEN c1
         ELSE Only({ IF ~Ok(bound) THEN StatusOf(bound)
                     ELSE StatusOf([bound EXCEPT
                                      !.last = IF @ = 0 THEN Ast[node].body ELSE @]) :
                     bound \in {IF IsLeaf(Ast[node].name_def_tree)
                                  THEN LetBindLeaf(c1, node)
                                ELSE LetBindTuple(c1, node)} }) :
         c1 \in {Visit(ctx, Ast[node].rhs)} })

(***************************************************************************)
(* HandleMatch and HandleMatcher                                           *)
(***************************************************************************)

\* NameDefTree::IsIrrefutable: every leaf is a wildcard or a fresh name.
RECURSIVE IsIrrefutable(_)
IsIrrefutable(tree) ==
  IF IsLeaf(tree) THEN Ast[Ast[tree].leaf].kind \in {"NameDef", "WildcardPattern"}
  ELSE \A i \in 1..Len(Ast[tree].nodes) : IsIrrefutable(Ast[tree].nodes[i])

\* The loop of HandleMatcher over the members i.. of a tuple pattern.
MatcherMembers(ctx, matcher, i, matched_value, matched_tuple_type, ok) ==
  IF i > matched_tuple_type.n THEN [ctx EXCEPT !.ret = ok]
  ELSE Only({ Only({ IF ~Ok(c2) THEN c2
                     ELSE Only({ MatcherMembers(c3, matcher, i + 1, matched_value,
                                                matched_tuple_type, c3.ret) :
                                 c3 \in {FbAdd(c2, IrNode("And", <<ok, c2.ret>>, <<>>,
                                                          NoValue, 0))} }) :
                     c2 \in {HandleMatcher(c1, Ast[matcher].nodes[i], c1.ret,
                                           matched_tuple_type.ms[i])} }) :
              c1 \in {FbAdd(ctx, IrNode("TupleIndex", <<matched_value>>, <<i - 1>>,
                                        NoValue, 0))} })

\* HandleMatcher on a leaf that is a Number or a ColonRef.
MatcherLiteral(ctx, matcher, leaf, matched_value) ==
  Only({ IF ~Ok(c1) THEN c1
         ELSE Only({ IF ~Ok(c2) THEN c2
                     ELSE Def(c2, matcher, IrNode("Eq", <<c2.ret, matched_value>>, <<>>,
                                                  NoValue, 0)) :
                     c2 \in {Use(c1, leaf)} }) :
         c1 \in {Visit(ctx, leaf)} })

\* HandleMatcher on a leaf that is a NameRef.
MatcherNameRef(ctx, matcher, leaf, matched_value) ==
  Only({ IF ~Ok(c1) THEN c1
         ELSE Only({ Only({ IF ~Ok(c3) THEN c3 ELSE [c3 EXCEPT !.ret = c2.ret] :
                            c3 \in {DefAlias(c2, Ast[leaf].name_def, leaf)} }) :
                     c2 \in {Def(c1, matcher, IrNode("Eq", <<c1.ret, matched_value>>,
                                                     <<>>, NoValue, 0))} }) :
         c1 \in {Use(ctx, Ast[leaf].name_def)} })

MatcherNameDefLiteral(ctx, matcher, leaf, matched_value) ==
  Only({ [SetNodeToIr(c1, matcher, BValue(matched_value)) EXCEPT !.ret = c1.ret] :
         c1 \in {Def(ctx, leaf, IrNode("Literal", <<>>, <<>>, BitsValue(1, 1), 0))} })

\* HandleMatcher on a leaf that is a NameDef.
MatcherNameDef(ctx, matcher, leaf, matched_value) ==
  Only({ [SetNodeToIr(SetNodeToIr(c1, matcher, BValue(matched_value)),
                      leaf, BValue(matched_value)) EXCEPT !.ret = c1.ret] :
         c1 \in {Def(ctx, leaf, IrNode("Literal", <<>>, <<>>, BitsValue(1, 1), 0))} })

HandleMatcher(ctx, matcher, matched_value, matched_type) ==
  IF IsLeaf(matcher)
    THEN CASE Ast[Ast[matcher].leaf].kind = "WildcardPattern" ->
                Def(ctx, matcher, IrNode("Literal", <<>>, <<>>, BitsValue(1, 1),
                                         ToSourceLocation(matcher)))
           [] Ast[Ast[matcher].leaf].kind \in {"Number", "ColonRef"} ->
                MatcherLiteral(ctx, matcher, Ast[matcher].leaf, matched_value)
           [] Ast[Ast[matcher].leaf].kind = "NameRef" ->
                MatcherNameRef(ctx, matcher, Ast[matcher].leaf, matched_value)
           [] Ast[Ast[matcher].leaf].kind = "NameDef" ->
                MatcherNameDef(ctx, matcher, Ast[matcher].leaf, matched_value)
           [] OTHER -> Fail(ctx, "Internal")
  ELSE Only({ MatcherMembers(c0, matcher, 1, matched_value, matched_type, c0.ret) :
              c0 \in {FbAdd(ctx, IrNode("Literal", <<>>, <<>>, BitsValue(1, 1), 0))} })

\* The patterns j.. of one arm; the selectors end up in vec (this_arm_selectors).
RECURSIVE ArmPatterns(_, _, _, _, _, _)
ArmPatterns(ctx, patterns, j, matched, matched_type, this_arm_selectors) ==
  IF j > Len(patterns) THEN [ctx EXCEPT !.vec = this_arm_selectors]
  ELSE Only({ IF ~Ok(c1) THEN c1
              ELSE ArmPatterns(c1, patterns, j + 1, matched, matched_type,
                               Append(this_arm_selectors, c1.ret)) :
              c1 \in {HandleMatcher(ctx, patterns[j], matched, matched_type)} })

DefaultArmAccepted(default_arm) == TRUE

\* The check on the default arm's pattern count.
DefaultArmHasOnePattern(default_arm) == Len(Ast[default_arm].patterns) = 1

MatchTrueNodeWithDefaultCase(arm_selectors, arm_values, default_value) ==
  IrNode("MatchTrue", arm_selectors \o <<default_value>> \o arm_values, <<>>, NoValue, 0)

\* function_builder_->MatchTrue(arm_selectors, arm_values, default_value): the
\* operands are the selectors, then the values, then the default.
MatchTrueNode(arm_selectors, arm_values, default_value) ==
  IrNode("MatchTrue", arm_selectors \o arm_values \o <<default_value>>, <<>>, NoValue, 0)

\* The end of HandleMatch: the default value, MatchTrue, the entry for the node.
MatchFinish(ctx, node, arm_selectors, arm_values) ==
  Only({ IF ~Ok(c1) THEN c1
         ELSE Only({ StatusOf([SetNodeToIr(c2, node, BValue(c2.ret))
                                 EXCEPT !.last = node]) :
                     c2 \in {FbAdd(c1, MatchTrueNode(arm_selectors, arm_values,
                                                     c1.ret))} }) :
         c1 \in {Use(ctx, Ast[Ast[node].arms[Len(Ast[node].arms)]].expr)} })

RECURSIVE MatchArmsExprFirst(_, _, _, _, _, _, _)
MatchArmsExprFirst(ctx, node, i, matched, matched_type, arm_selectors, arm_values) ==
  IF i > Len(Ast[node].arms) - 1
    THEN MatchFinish(ctx, node, arm_selectors, arm_values)
  ELSE Only({ IF ~Ok(c0) THEN c0
    ELSE Only({ IF ~Ok(c1) THEN c1
      ELSE Only({ Only({ IF ~Ok(c4) THEN c4
                         ELSE MatchArmsExprFirst(c4, node, i + 1, matched, matched_type,
                                                 Append(arm_selectors, c2.ret),
                                                 Append(arm_values, c4.ret)) :
                         c4 \in {Use(c2, Ast[Ast[node].arms[i]].expr)} }) :
        c2 \in {IF Len(c1.vec) > 1
                  THEN FbAdd(c1, IrNode("Or", c1.vec, <<>>, NoValue,
                                        ToSourceLocation(Ast[node].arms[i])))
                ELSE [c1 EXCEPT !.ret = c1.vec[1]]} }) :
      c1 \in {ArmPatterns(c0, Ast[Ast[node].arms[i]].patterns, 1, matched,
                          matched_type, <<>>)} }) :
    c0 \in {Visit(ctx, Ast[Ast[node].arms[i]].expr)} })

\* The loop of HandleMatch over the arms i.. before the default arm.
RECURSIVE MatchArms(_, _, _, _, _, _, _)
MatchArms(ctx, node, i, matched, matched_type, arm_selectors, arm_values) ==
  IF i > Len(Ast[node].arms) - 1
    THEN MatchFinish(ctx, node, arm_selectors, arm_values)
  ELSE Only({ IF ~Ok(c1) THEN c1
    ELSE Only({ Only({ IF ~Ok(c3) THEN c3
      ELSE Only({ IF ~Ok(c4) THEN c4
                  ELSE MatchArms(c4, node, i + 1, matched, matched_type,
                                 Append(arm_selectors, c2.ret),
                                 Append(arm_values, c4.ret)) :
                  c4 \in {Use(c3, Ast[Ast[node].arms[i]].expr)} }) :
      c3 \in {Visit(c2, Ast[Ast[node].arms[i]].expr)} }) :
    c2 \in {IF Len(c1.vec) > 1
              THEN FbAdd(c1, IrNode("Or", c1.vec, <<>>, NoValue,
                                    ToSourceLocation(Ast[node].arms[i])))
            ELSE [c1 EXCEPT !.ret = c1.vec[1]]} }) :
    c1 \in {ArmPatterns(ctx, Ast[Ast[node].arms[i]].patterns, 1, matched,
                        matched_type, <<>>)} })

\* HandleMatch from the default arm on; c2 holds the matched value.
MatchDefaultArm(c2, node, default_arm) ==
  IF ~HasType(Ast[node].matched) THEN Fail(c2, "Internal")
  ELSE IF ~DefaultArmHasOnePattern(default_arm) THEN Fail(c2, "Unimplemented")
  ELSE Only({ IF ~Ok(c3) THEN StatusOf(c3)
    ELSE Only({ IF ~Ok(c4) THEN c4
                ELSE MatchArms(c4, node, 1, c2.ret, TypeInfo[Ast[node].matched],
                               <<>>, <<>>) :
                c4 \in {Visit(c3, Ast[default_arm].expr)} }) :
    c3 \in {HandleMatcher(c2, Ast[default_arm].patterns[1], c2.ret,
                          TypeInfo[Ast[node].matched])} })

HandleMatchVisitFirst(ctx, node) ==
  LET arms == Ast[node].arms
  IN  Only({ IF ~Ok(c1) THEN c1
             ELSE IF arms = <<>> \/ ~IsIrrefutable(Ast[arms[Len(arms)]].patterns[1])
               THEN Fail(c1, "Unimplemented")
             ELSE Only({ IF ~Ok(c2) THEN c2
                         ELSE MatchDefaultArm(c2, node, arms[Len(arms)]) :
                         c2 \in {Use(c1, Ast[node].matched)} }) :
             c1 \in {Visit(ctx, Ast[node].matched)} })

HandleMatch(ctx, node) ==
  LET arms == Ast[node].arms
  IN  IF arms = <<>> \/ ~IsIrrefutable(Ast[arms[Len(arms)]].patterns[1])
        THEN Fail(ctx, "Unimplemented")
      ELSE Only({ IF ~Ok(c1) THEN c1
             ELSE Only({ IF ~Ok(c2) THEN c2
                         ELSE MatchDefaultArm(c2, node, arms[Len(arms)]) :
                         c2 \in {Use(c1, Ast[node].matched)} }) :
             c1 \in {Visit(ctx, Ast[node].matched)} })

(***************************************************************************)
(* Struct instances.                                                       *)
(***************************************************************************)

\* The AST's IsConstant: a literal, a reference to a constant, or a tuple,
\* struct instance or cast made of constant expressions.
RECURSIVE IsConstant(_)
IsConstant(n) ==
  CASE Ast[n].kind \in {"Number", "ColonRef", "ConstantArray"} -> TRUE
    [] Ast[n].kind = "Cast" -> IsConstant(Ast[n].expr)
    [] Ast[n].kind = "XlsTuple" ->
         \A i \in 1..Len(Ast[n].members) : IsConstant(Ast[n].members[i])
    [] Ast[n].kind = "StructInstance" ->
         \A i \in 1..Len(Ast[n].members) : IsConstant(Ast[n].members[i][2])
    [] OTHER -> FALSE

\* GetConstValue: status and value.
GetConstValue(ctx, node) ==
  IF GetNodeToIr(ctx, node) = <<>> THEN [status |-> "Internal", value |-> NoValue]
  ELSE IF ctx.env[node].tag # "CValue" THEN [status |-> "Internal", value |-> NoValue]
  ELSE [status |-> "OK", value |-> ctx.env[node].ir_value]

\* DerefStructOrEnum on a type definition of this module: status and definition.
RECURSIVE DerefStructOrEnum(_)
DerefStructOrEnum(node) ==
  CASE Ast[node].kind = "TypeDef" ->
         IF Ast[node].type = 0 THEN [status |-> "Unimplemented", def |-> 0]
         ELSE DerefStructOrEnum(Ast[node].type)
    [] Ast[node].kind \in {"StructDef", "EnumDef"} -> [status |-> "OK", def |-> node]
    [] OTHER -> [status |-> "Internal", def |-> 0]

DerefStruct(node) ==
  IF DerefStructOrEnum(node).status # "OK" THEN DerefStructOrEnum(node)
  ELSE IF Ast[DerefStructOrEnum(node).def].kind # "StructDef"
    THEN [status |-> "Internal", def |-> 0]
  ELSE DerefStructOrEnum(node)

\* StructInstance::GetOrderedMembers: the member expressions in the order of
\* the struct definition's members.
GetOrderedMembers(node, struct_def) ==
  [i \in 1..Len(Ast[struct_def].members) |->
     Ast[node].members[CHOOSE j \in 1..Len(Ast[node].members) :
                         Ast[node].members[j][1] = Ast[struct_def].members[i]][2]]

\* The all_are_constant flag after a member, and the constant operands.
StructMemberConst(c2, member_expr, all_are_constant, const_operands) ==
  IF ~(all_are_constant /\ IsConstant(member_expr))
    THEN [status |-> "OK", all |-> FALSE, values |-> const_operands]
  ELSE IF GetConstValue(c2, member_expr).status # "OK"
    THEN [status |-> GetConstValue(c2, member_expr).status, all |-> TRUE,
          values |-> const_operands]
  ELSE [status |-> "OK", all |-> TRUE,
        values |-> Append(const_operands, GetConstValue(c2, member_expr).value)]

\* The statements after HandleStructInstance's loop.
StructInstanceFinish(ctx, node, operands, all_are_constant, const_operands) ==
  Only({ IF all_are_constant
           THEN StatusOf(SetNodeToIr(c1, node,
                                     CValue(TupleValue(const_operands), c1.ret)))
         ELSE StatusOf(c1) :
         c1 \in {Def(ctx, node, IrNode("Tuple", operands, <<>>, NoValue,
                                       ToSourceLocation(node)))} })

RECURSIVE StructInstanceMembers(_, _, _, _, _, _, _)
StructInstanceMembers(ctx, node, members, i, operands, all_are_constant, const_operands) ==
  IF i > Len(members)
    THEN StructInstanceFinish(ctx, node, operands, all_are_constant, const_operands)
  ELSE Only({ IF ~Ok(c1) THEN c1
              ELSE Only({ IF ~Ok(c2) THEN c2
                          ELSE Only({ IF k.status # "OK" THEN Fail(c2, k.status)
                                      ELSE StructInstanceMembers(
                                             c2, node, members, i + 1,
                                             Append(operands, c2.ret), k.all, k.values) :
                                      k \in {StructMemberConst(c2, members[i],
                                               all_are_constant, const_operands)} }) :
                          c2 \in {Use(c1, members[i])} }) :
              c1 \in {Visit(ctx, members[i])} })

HandleStructInstance(ctx, node) ==
  IF DerefStruct(Ast[node].struct_def).status # "OK"
    THEN Fail(ctx, DerefStruct(Ast[node].struct_def).status)
  ELSE StructInstanceMembers(
         ctx, node, GetOrderedMembers(node, DerefStruct(Ast[node].struct_def).def),
         1, <<>>, TRUE, <<>>)

\* The loop of HandleSplatStructInstance over the members of the struct
\* definition: the handle of the update, or a TupleIndex of the original.
RECURSIVE SplatMembers(_, _, _, _, _, _, _)
SplatMembers(ctx, node, struct_def, original, updates, i, members) ==
  IF i > Len(Ast[struct_def].members)
    THEN StatusOf(Def(ctx, node, IrNode("Tuple", members, <<>>, NoValue,
                                        ToSourceLocation(node))))
  ELSE IF Ast[struct_def].members[i] \in DOMAIN updates
    THEN SplatMembers(ctx, node, struct_def, original, updates, i + 1,
                      Append(members, updates[Ast[struct_def].members[i]]))
  ELSE Only({ SplatMembers(c1, node, struct_def, original, updates, i + 1,
                           Append(members, c1.ret)) :
              c1 \in {FbAdd(ctx, IrNode("TupleIndex", <<original>>, <<i - 1>>,
                                        NoValue, 0))} })

\* The loop of HandleSplatStructInstance over the instance's members, then
\* DerefStruct and the loop over the definition's members.
RECURSIVE SplatUpdates(_, _, _, _, _)
SplatUpdates(ctx, node, i, original, updates) ==
  IF i > Len(Ast[node].members)
    THEN IF DerefStruct(Ast[node].struct_ref).status # "OK"
           THEN Fail(ctx, DerefStruct(Ast[node].struct_ref).status)
         ELSE SplatMembers(ctx, node, DerefStruct(Ast[node].struct_ref).def,
                           original, updates, 1, <<>>)
  ELSE Only({ IF ~Ok(c1) THEN c1
              ELSE Only({ IF ~Ok(c2) THEN c2
                          ELSE SplatUpdates(c2, node, i + 1, original,
                                 (Ast[node].members[i][1] :> c2.ret) @@ updates) :
                          c2 \in {Use(c1, Ast[node].members[i][2])} }) :
              c1 \in {Visit(ctx, Ast[node].members[i][2])} })

HandleSplatStructInstance(ctx, node) ==
  Only({ IF ~Ok(c1) THEN c1
         ELSE Only({ IF ~Ok(c2) THEN c2
                     ELSE SplatUpdates(c2, node, 1, c2.ret, [k \in {} |-> 0]) :
                     c2 \in {Use(c1, Ast[node].splatted)} }) :
         c1 \in {Visit(ctx, Ast[node].splatted)} })

(***************************************************************************)
(* Casts.                                                                  *)
(***************************************************************************)

\* IsSigned of a concrete type: status and signedness.
IsSigned(t) ==
  IF t.k \in {"bits", "enum"} THEN [status |-> "OK", signed |-> t.signed]
  ELSE [status |-> "InvalidArgument", signed |-> FALSE]

\* The loop of CastToArray: slice i is BitSlice(bits, i * element_bit_count,
\* element_bit_count); the handles are collected in ctx.vec.
RECURSIVE CastToArraySlices(_, _, _, _, _)
CastToArraySlices(ctx, bits, i, array_size, element_bit_count) ==
  IF i >= array_size THEN ctx
  ELSE Only({ CastToArraySlices([c1 EXCEPT !.vec = Append(@, c1.ret)], bits, i + 1,
                                array_size, element_bit_count) :
              c1 \in {FbAdd(ctx, IrNode("BitSlice", <<bits>>,
                                        <<i * element_bit_count, element_bit_count>>,
                                        NoValue, 0))} })

ReverseNot(v) == v

\* std::reverse
Reverse(v) == [i \in 1..Len(v) |-> v[Len(v) + 1 - i]]

CastToArray(ctx, node, output_type) ==
  Only({ IF ~Ok(c1) THEN c1
         ELSE Only({ StatusOf(Def([c2 EXCEPT !.vec = <<>>], node,
                                  IrNode("Array", Reverse(c2.vec),
                                         <<GetTotalBitCount(output_type.ms[1])>>,
                                         NoValue, ToSourceLocation(node)))) :
                     c2 \in {CastToArraySlices([c1 EXCEPT !.vec = <<>>], c1.ret, 0,
                                               output_type.n,
                                               GetTotalBitCount(output_type.ms[1]))} }) :
         c1 \in {Use(ctx, Ast[node].expr)} })

\* The loop of CastFromArray: piece i is ArrayIndex(array, {Literal(UBits(i, 32))}).
RECURSIVE CastFromArrayPieces(_, _, _, _)
CastFromArrayPieces(ctx, array, i, array_size) ==
  IF i >= array_size THEN ctx
  ELSE Only({ Only({ CastFromArrayPieces([c2 EXCEPT !.vec = Append(@, c2.ret)],
                                         array, i + 1, array_size) :
                     c2 \in {FbAdd(c1, IrNode("ArrayIndex", <<array, c1.ret>>, <<>>,
                                              NoValue, 0))} }) :
              c1 \in {FbAdd(ctx, IrNode("Literal", <<>>, <<>>, BitsValue(32, i), 0))} })

CastFromArray(ctx, node, output_type) ==
  Only({ IF ~Ok(c1) THEN c1
         ELSE IF ~HasType(Ast[node].expr) THEN Fail(c1, "Internal")
         ELSE Only({ StatusOf(Def([c2 EXCEPT !.vec = <<>>], node,
                                  IrNode("Concat", c2.vec, <<>>, NoValue,
                                         ToSourceLocation(node)))) :
                     c2 \in {CastFromArrayPieces([c1 EXCEPT !.vec = <<>>], c1.ret, 0,
                                                 TypeInfo[Ast[node].expr].n)} }) :
         c1 \in {Use(ctx, Ast[node].expr)} })

\* DefWithStatus with the ir_func of the narrowing branch.
CastNarrow(ctx, node, new_bit_count) ==
  Only({ IF ~Ok(c1) THEN c1
         ELSE StatusOf(Def(c1, node, IrNode("BitSlice", <<c1.ret>>, <<0, new_bit_count>>,
                                            NoValue, ToSourceLocation(node)))) :
         c1 \in {Use(ctx, Ast[node].expr)} })

CastExtendAlwaysZero(ctx, node, new_bit_count, signed_input) ==
  Only({ IF ~Ok(c1) THEN c1
         ELSE StatusOf(Def(c1, node, IrNode("ZeroExtend", <<c1.ret>>, <<new_bit_count>>,
                                            NoValue, ToSourceLocation(node)))) :
         c1 \in {Use(ctx, Ast[node].expr)} })

\* DefWithStatus with the ir_func of the widening branch.
CastExtend(ctx, node, new_bit_count, signed_input) ==
  Only({ IF ~Ok(c1) THEN c1
         ELSE StatusOf(Def(c1, node,
                           IrNode(IF signed_input THEN "SignExtend" ELSE "ZeroExtend",
                                  <<c1.ret>>, <<new_bit_count>>, NoValue,
                                  ToSourceLocation(node)))) :
         c1 \in {Use(ctx, Ast[node].expr)} })

\* HandleCast after visit(node->expr()) succeeded.
CastLowered(c1, node) ==
  IF ~HasType(node) THEN Fail(c1, "Internal")
  ELSE IF TypeInfo[node].k = "array" THEN CastToArray(c1, node, TypeInfo[node])
  ELSE IF ~HasType(Ast[node].expr) THEN Fail(c1, "Internal")
  ELSE IF TypeInfo[Ast[node].expr].k = "array"
    THEN CastFromArray(c1, node, TypeInfo[node])
  ELSE IF GetTotalBitCount(TypeInfo[node]) < GetTotalBitCount(TypeInfo[Ast[node].expr])
    THEN CastNarrow(c1, node, GetTotalBitCount(TypeInfo[node]))
  ELSE IF IsSigned(TypeInfo[Ast[node].expr]).status # "OK"
    THEN Fail(c1, IsSigned(TypeInfo[Ast[node].expr]).status)
  ELSE CastExtend(c1, node, GetTotalBitCount(TypeInfo[node]),
                  IsSigned(TypeInfo[Ast[node].expr]).signed)

HandleCast(ctx, node) ==
  Only({ IF ~Ok(c1) THEN c1 ELSE CastLowered(c1, node) :
         c1 \in {Visit(ctx, Ast[node].expr)} })

(***************************************************************************)
(* HandleMap, DefMapWithBuiltin.  The package is the sequence of the       *)
(* functions added to it; a Map node holds in imm the position of the      *)
(* function it applies.                                                    *)
(***************************************************************************)

\* The parametric builtins; clz and ctz are the ones a map can apply.
ParametricBuiltins == {"clz", "ctz", "rev"}

\* The bindings the type information records for an invocation, if any.
GetInvocationBindings(node) ==
  IF node \in DOMAIN InvocationBindings THEN <<InvocationBindings[node]>> ELSE <<>>

HasFunctionWithName(pkg, name) == \E i \in 1..Len(pkg) : pkg[i].name = name

\* Package::GetFunction: the position of the first function of that name.
GetFunction(pkg, name) ==
  CHOOSE i \in 1..Len(pkg) :
    pkg[i].name = name /\ \A j \in 1..(i - 1) : pkg[j].name # name

\* Module::GetFunction: the functions of that name in the module.
GetModuleFunction(module_name, name) ==
  {f \in 1..Len(Ast) : Ast[f].kind = "Function" /\ Ast[f].module = module_name
                       /\ Ast[f].identifier = name}

\* FunctionBuilder fb(mangled_name), fb.Param("arg", element_type), the builtin
\* on it, fb.Build().
MapWrapper(mangled_name, element_type, builtin_name) ==
  [name |-> mangled_name, param_types |-> <<element_type>>,
   body |-> <<[IrNode("Param", <<>>, <<>>, NoValue, 0) EXCEPT !.name = "arg"],
              IrNode(IF builtin_name = "clz" THEN "Clz" ELSE "Ctz", <<1>>, <<>>,
                     NoValue, 0)>>]

DefMapWrapperAlways(ctx, mangled_name, element_type, builtin_name) ==
  IF builtin_name \notin {"clz", "ctz"} THEN Fail(ctx, "Internal")
  ELSE [ctx EXCEPT !.pkg = Append(@, MapWrapper(mangled_name, element_type,
                                                builtin_name))]

\* The block of DefMapWithBuiltin under !package_->HasFunctionWithName.
DefMapWrapper(ctx, mangled_name, element_type, builtin_name) ==
  IF HasFunctionWithName(ctx.pkg, mangled_name) THEN ctx
  ELSE IF builtin_name \notin {"clz", "ctz"} THEN Fail(ctx, "Internal")
  ELSE [ctx EXCEPT !.pkg = Append(@, MapWrapper(mangled_name, element_type,
                                                builtin_name))]

\* DefMapWithBuiltin after Use(arg) returned arg_value in c1.
DefMapBuiltinLowered(c1, parent_node, node, arg, mangled_name) ==
  IF ~HasType(arg) \/ TypeInfo[arg].k # "array" THEN Fail(c1, "Fatal")
  ELSE Only({ IF ~Ok(c2) THEN c2
              ELSE Def(c2, parent_node,
                       IrNode("Map", <<c1.ret>>, <<GetFunction(c2.pkg, mangled_name)>>,
                              NoValue, 0)) :
              c2 \in {DefMapWrapper(c1, mangled_name, TypeInfo[arg].ms[1],
                                    Ast[Ast[node].name_def].identifier)} })

DefMapWithBuiltin(ctx, parent_node, node, arg, symbolic_bindings) ==
  Only({ IF m.status # "OK" THEN Fail(ctx, m.status)
         ELSE Only({ IF ~Ok(c1) THEN c1
                     ELSE DefMapBuiltinLowered(c1, parent_node, node, arg, m.name) :
                     c1 \in {Use(ctx, arg)} }) :
         m \in {MangleDslxName(Ast[Ast[node].name_def].chars, {},
                               Functions[cur.fn].module, symbolic_bindings)} })

\* HandleMap from lookup_module->GetFunction on; arg is the handle Use gave.
\* An empty node_sym_bindings makes value() end the process.
MapFunction(ctx, node, arg, lookup_module, map_fn_name, node_sym_bindings) ==
  IF GetModuleFunction(lookup_module, map_fn_name) = {} \/ node_sym_bindings = <<>>
    THEN Fail(ctx, "Fatal")
  ELSE Only({ IF m.status # "OK" THEN Fail(ctx, m.status)
              ELSE IF ~HasFunctionWithName(ctx.pkg, m.name) THEN Fail(ctx, "NotFound")
              ELSE Def(ctx, node,
                       IrNode("Map", <<arg>>, <<GetFunction(ctx.pkg, m.name)>>,
                              NoValue, ToSourceLocation(node))) :
              m \in {MangleDslxName(
                       Ast[Only(GetModuleFunction(lookup_module, map_fn_name))].chars,
                       {Ast[Only(GetModuleFunction(lookup_module, map_fn_name))].free_keys[i] :
                          i \in 1..Len(Ast[Only(GetModuleFunction(lookup_module,
                                                                  map_fn_name))].free_keys)},
                       lookup_module, node_sym_bindings[1])} })

\* HandleMap after the arguments but the last are lowered and Use(args[0])
\* returned its handle in c2.
MapCallee(c2, node, fn_node, node_sym_bindings) ==
  CASE Ast[fn_node].kind = "NameRef" ->
         IF Ast[Ast[fn_node].name_def].identifier \in ParametricBuiltins
           THEN IF node_sym_bindings = <<>> THEN Fail(c2, "Fatal")
                ELSE DefMapWithBuiltin(c2, node, fn_node, Ast[node].args[1],
                                       node_sym_bindings[1])
         ELSE MapFunction(c2, node, c2.ret, Functions[cur.fn].module,
                          Ast[Ast[fn_node].name_def].identifier, node_sym_bindings)
    [] Ast[fn_node].kind = "ColonRef" ->
         MapFunction(c2, node, c2.ret, Ast[Ast[fn_node].target].module,
                     Ast[fn_node].attr, node_sym_bindings)
    [] OTHER -> Fail(c2, "Unimplemented")

HandleMap(ctx, node) ==
  Only({ IF ~Ok(c1) THEN c1
         ELSE Only({ IF ~Ok(c2) THEN c2
                     ELSE MapCallee(c2, node, Ast[node].args[2],
                                    GetInvocationBindings(node)) :
                     c2 \in {Use(c1, Ast[node].args[1])} }) :
         c1 \in {VisitAll(ctx, SubSeq(Ast[node].args, 1, Len(Ast[node].args) - 1), 1)} })

(***************************************************************************)
(* The visit callback of the driver: it dispatches on the node kind, and   *)
(* for the kinds whose handler takes no visit callback it lowers the       *)
(* sub-expressions first.                                                  *)
(***************************************************************************)

\* The handler of a node's kind.
Dispatch(ctx, n) ==
  CASE Ast[n].kind = "Number" -> HandleNumber(ctx, n)
    [] Ast[n].kind = "NameRef" -> StatusOf(DefAlias(ctx, Ast[n].name_def, n))
    [] Ast[n].kind = "Unop" -> HandleUnop(ctx, n)
    [] Ast[n].kind = "Binop" -> HandleBinop(ctx, n)
    [] Ast[n].kind = "XlsTuple" -> HandleXlsTuple(ctx, n)
    [] Ast[n].kind = "Ternary" -> HandleTernary(ctx, n)
    [] Ast[n].kind = "ConstantDef" -> HandleConstantDef(ctx, n)
    [] Ast[n].kind = "ColonRef" -> HandleColonRef(ctx, n)
    [] Ast[n].kind = "Let" -> HandleLet(ctx, n)
    [] Ast[n].kind = "Match" -> HandleMatch(ctx, n)
    [] Ast[n].kind = "StructInstance" -> HandleStructInstance(ctx, n)
    [] Ast[n].kind = "SplatStructInstance" -> HandleSplatStructInstance(ctx, n)
    [] Ast[n].kind = "Cast" -> HandleCast(ctx, n)
    [] Ast[n].kind = "Invocation" -> HandleMap(ctx, n)
    [] OTHER -> Fail(ctx, "Unimplemented")

\* The sub-expressions the driver lowers before calling a handler without callback.
Operands(n) ==
  CASE Ast[n].kind = "Unop" -> <<Ast[n].operand>>
    [] Ast[n].kind = "Binop" -> <<Ast[n].lhs, Ast[n].rhs>>
    [] Ast[n].kind = "XlsTuple" -> Ast[n].members
    [] Ast[n].kind = "Ternary" -> <<Ast[n].test, Ast[n].consequent, Ast[n].alternate>>
    [] OTHER -> <<>>

VisitAll(ctx, nodes, i) ==
  IF ~Ok(ctx) \/ i > Len(nodes) THEN ctx
  ELSE Only({ VisitAll(c1, nodes, i + 1) : c1 \in {Visit(ctx, nodes[i])} })

Visit(ctx, n) ==
  Only({ IF ~Ok(c1) THEN c1 ELSE Dispatch(c1, n) :
         c1 \in {VisitAll([ctx EXCEPT !.visits = Append(@, n)], Operands(n), 1)} })

(***************************************************************************)
(* The state machine.  One IrConverter lowers one function (cur); the      *)
(* driver binds the parameters and calls the visit callback, the handlers  *)
(* and the environment operations on the nodes of that function.           *)
(***************************************************************************)

\* No engine call starts once the function builder holds this many nodes.
MaxOps == 6

EmptyEnv == [n \in {} |-> BValue(0)]

\* A symbolic_binding_map_ without bindings, a package without functions.
NoBindings == [k \in {} |-> 0]
EmptyPackage == <<>>

engine_vars ==
  <<cur, node_to_ir, ops, last_expression, function_builder, constant_deps,
    symbolic_binding_map, package, res>>

ResIdle ==
  [call |-> "none", node |-> 0, to |-> 0, status |-> "OK", ret |-> 0,
   visits |-> <<>>, walk |-> <<>>, defs |-> <<>>, ops_before |-> 0]

Params(f) == {Functions[f].params[i] : i \in 1..Len(Functions[f].params)}
Entries(f) == {Functions[f].entries[i] : i \in 1..Len(Functions[f].entries)}

\* The context a call starts from.
Ctx0 ==
  [env |-> node_to_ir, ops |-> ops, last |-> last_expression, status |-> "OK",
   ret |-> 0, visits |-> <<>>, walk |-> <<>>, levels |-> <<>>, vec |-> <<>>,
   defs |-> <<>>, pkg |-> package]

\* The call has returned c: the engine's state is what c holds.
Commit(call, node, to, c) ==
  /\ node_to_ir' = c.env
  /\ ops' = c.ops
  /\ last_expression' = c.last
  /\ res' = [call |-> call, node |-> node, to |-> to, status |-> c.status,
             ret |-> c.ret, visits |-> c.visits, walk |-> c.walk,
             defs |-> c.defs, ops_before |-> Len(ops)]
  /\ package' = c.pkg
  /\ UNCHANGED <<mg, cv, rd, zp, cur, function_builder, constant_deps, symbolic_binding_map>>

\* The members a newly constructed IrConverter starts with.
Constructed ==
  /\ node_to_ir = EmptyEnv
  /\ ops = <<>>
  /\ last_expression = 0
  /\ function_builder = <<>>
  /\ constant_deps = <<>>
  /\ res = ResIdle

EngineIdle ==
  /\ cur = [fn |-> 1, emit_positions |-> FALSE]
  /\ symbolic_binding_map = NoBindings
  /\ package = EmptyPackage
  /\ Constructed

\* The sample functions that are lowered one expression at a time, under the
\* specifications SpecBinop, SpecCast and SpecMap.
FnsNamed(names) == {f \in 1..Len(Functions) : Functions[f].name \in names}
BinopFns == FnsNamed({"binops"})
CastFns == FnsNamed({"casts"})
MapFns == FnsNamed({"maps", "maps_shared"})

Init ==
  /\ mg = MgIdle
  /\ cv = CvIdle
  /\ rd = RdIdle
  /\ zp = ZpIdle
  /\ cur \in [fn : (1..Len(Functions)) \ (BinopFns \cup CastFns \cup MapFns),
               emit_positions : BOOLEAN]
  /\ symbolic_binding_map = NoBindings
  /\ package = EmptyPackage
  /\ Constructed

\* A fatal check failure ends the process: no call is made after it.
Alive == res.status # "Fatal"

\* function_builder_ != nullptr: the handlers dereference it.
HasBuilder == Alive /\ function_builder # <<>>

\* The name the driver installs the function builder under.
MangledNameOf(f) ==
  MangleDslxName(<<"f">>, {}, Functions[f].module, NullBindings).name

InstantiateFunctionBuilderAgain(mangled_name) ==
  /\ Alive
  /\ function_builder' = <<mangled_name>>
  /\ ops' = <<>>
  /\ res' = [ResIdle EXCEPT !.call = "InstantiateFunctionBuilder",
                            !.ops_before = Len(ops)]
  /\ UNCHANGED <<mg, cv, rd, zp, cur, node_to_ir, last_expression, constant_deps,
                 symbolic_binding_map, package>>

\* XLS_CHECK(function_builder_ == nullptr), then a new FunctionBuilder.
InstantiateFunctionBuilder(mangled_name) ==
  /\ Alive
  /\ IF function_builder # <<>>
       THEN /\ res' = [ResIdle EXCEPT !.call = "InstantiateFunctionBuilder",
                                      !.status = "Fatal", !.ops_before = Len(ops)]
            /\ UNCHANGED <<function_builder, ops>>
     ELSE /\ function_builder' = <<mangled_name>>
          /\ ops' = <<>>
          /\ res' = [ResIdle EXCEPT !.call = "InstantiateFunctionBuilder",
                                    !.ops_before = Len(ops)]
  /\ UNCHANGED <<mg, cv, rd, zp, cur, node_to_ir, last_expression, constant_deps,
                 symbolic_binding_map, package>>

\* The driver binds a parameter: FunctionBuilder::Param, then SetNodeToIr.
SetParam(p) ==
  /\ HasBuilder
  /\ p \notin DOMAIN node_to_ir
  /\ Len(ops) < MaxOps
  /\ \E c1 \in {FbAdd(Ctx0, [IrNode("Param", <<>>, <<>>, NoValue, 0)
                               EXCEPT !.name = Ast[p].identifier])} :
       Commit("SetNodeToIr", p, 0, StatusOf(SetNodeToIr(c1, p, BValue(c1.ret))))

\* The driver lowers a node through its visit callback.
VisitNode(n) ==
  /\ HasBuilder
  /\ Len(ops) < MaxOps
  /\ \E c \in {Visit(Ctx0, n)} : Commit("Visit", n, 0, c)

\* The driver calls the handler of a node, whatever it has lowered before.
HandleNode(n) ==
  /\ HasBuilder
  /\ Len(ops) < MaxOps
  /\ \E c \in {Dispatch(Ctx0, n)} : Commit("Handle", n, 0, c)

UseNode(n) ==
  /\ Alive
  /\ \E c \in {Use(Ctx0, n)} : Commit("Use", n, 0, c)

\* The driver aliases a node that has no entry yet.
DefAliasNodes(from, to) ==
  /\ Alive
  /\ to \notin DOMAIN node_to_ir
  /\ \E c \in {DefAlias(Ctx0, from, to)} : Commit("DefAlias", from, to, c)

Next ==
  \/ InstantiateFunctionBuilder(MangledNameOf(cur.fn))
  \/ \E p \in Params(cur.fn) : SetParam(p)
  \/ \E n \in Entries(cur.fn) : VisitNode(n)
  \/ \E n \in Entries(cur.fn) : HandleNode(n)
  \/ \E n \in Entries(cur.fn) \cup Params(cur.fn) : UseNode(n)
  \/ \E from \in Entries(cur.fn) \cup Params(cur.fn), to \in Entries(cur.fn) \cup Params(cur.fn) :
       DefAliasNodes(from, to)

Spec == Init /\ [][Next]_vars

(***************************************************************************)
(* MangleDslxName under study: one call on arguments drawn from MangleArgs. *)
(***************************************************************************)

InitMangle ==
  /\ mg \in [phase : {"args"}, args : MangleArgs]
  /\ cv = CvIdle
  /\ rd = RdIdle
  /\ zp = ZpIdle
  /\ EngineIdle

Mangle ==
  /\ mg.phase = "args"
  /\ mg' = [phase |-> "done", args |-> mg.args, result |-> MangleOf(mg.args)]
  /\ UNCHANGED <<cv, rd, zp, engine_vars>>

NextMangle == Mangle

SpecMangle == InitMangle /\ [][NextMangle]_vars

(***************************************************************************)
(* The value conversions under study: a Value converted to an InterpValue  *)
(* and back, and an InterpValue converted to a Value.                      *)
(***************************************************************************)

InitConv ==
  /\ cv \in [phase : {"value"}, v : Values2] \cup [phase : {"interp"}, iv : InterpValues1]
  /\ mg = MgIdle
  /\ rd = RdIdle
  /\ zp = ZpIdle
  /\ EngineIdle

ToInterp ==
  /\ cv.phase = "value"
  /\ cv' = [phase |-> "converted", v |-> cv.v, to |-> ValueToInterpValue(cv.v)]
  /\ UNCHANGED <<mg, rd, zp, engine_vars>>

BackToValue ==
  /\ cv.phase = "converted"
  /\ cv.to.status = "OK"
  /\ cv' = [phase |-> "roundtrip", v |-> cv.v, to |-> cv.to,
            back |-> InterpValueToValue(cv.to.iv)]
  /\ UNCHANGED <<mg, rd, zp, engine_vars>>

FromInterp ==
  /\ cv.phase = "interp"
  /\ cv' = [phase |-> "lowered", iv |-> cv.iv, to |-> InterpValueToValue(cv.iv)]
  /\ UNCHANGED <<mg, rd, zp, engine_vars>>

NextConv == ToInterp \/ BackToValue \/ FromInterp

SpecConv == InitConv /\ [][NextConv]_vars

(***************************************************************************)
(* The symbolic bindings of an engine (SpecBindings): the driver declares  *)
(* constant dependencies and asks for the bindings tuple, while it lowers  *)
(* a function whose module holds no, one or two constants.                 *)
(***************************************************************************)

\* AddConstantDep is not called once constant_deps_ holds this many constants.
MaxDeps == 2

\* ConstantDef::identifier
ConstantIdentifier(c) == Ast[Ast[c].name_def].identifier

\* module_->GetConstantDefs() of the module of function f.
GetConstantDefs(f) ==
  {Functions[f].constant_defs[i] : i \in 1..Len(Functions[f].constant_defs)}

GetSymbolicBindingsTupleUnfiltered(binding_map, f) == SymbolicBindings(binding_map)

GetSymbolicBindingsTuple(binding_map, f) ==
  LET module_level_constant_identifiers ==
        {ConstantIdentifier(c) : c \in GetConstantDefs(f)}
      sans_module_level_constants ==
        [k \in (DOMAIN binding_map) \ module_level_constant_identifiers |->
           binding_map[k]]
  IN  SymbolicBindings(sans_module_level_constants)

BindingMaps == UNION {[ks -> BindingValues] : ks \in SUBSET IdentifierSet}

BindingFns ==
  {f \in 1..Len(Functions) : Functions[f].name \in {"not", "const_add", "const_n", "const_mn"}}

InitBindings ==
  /\ mg = MgIdle
  /\ cv = CvIdle
  /\ rd = RdIdle
  /\ zp = ZpIdle
  /\ cur \in [fn : BindingFns, emit_positions : {FALSE}]
  /\ symbolic_binding_map \in BindingMaps
  /\ package = EmptyPackage
  /\ Constructed

AddConstantDep(constant_def) ==
  /\ Alive
  /\ Len(constant_deps) < MaxDeps
  /\ constant_deps' = Append(constant_deps, constant_def)
  /\ res' = [call |-> "AddConstantDep", node |-> constant_def, to |-> 0,
             status |-> "OK", ret |-> 0, visits |-> <<>>, walk |-> <<>>,
             defs |-> <<>>, ops_before |-> Len(ops)]
  /\ UNCHANGED <<mg, cv, rd, zp, cur, node_to_ir, ops, last_expression, function_builder,
                 symbolic_binding_map, package>>

GetSymbolicBindingsTupleCall ==
  /\ Alive
  /\ res' = [call |-> "GetSymbolicBindingsTuple", node |-> 0, to |-> 0,
             status |-> "OK", ret |-> 0, visits |-> <<>>, walk |-> <<>>,
             defs |-> <<>>, ops_before |-> Len(ops),
             tuple |-> GetSymbolicBindingsTuple(symbolic_binding_map, cur.fn)]
  /\ UNCHANGED <<mg, cv, rd, zp, cur, node_to_ir, ops, last_expression, function_builder,
                 constant_deps, symbolic_binding_map, package>>

\* The driver lowers the declarations of the function in dependency order: the
\* next one is the first that has no entry yet.
Lowered(n) ==
  (IF Ast[n].kind = "ConstantDef" THEN Ast[n].name_def ELSE n) \in DOMAIN node_to_ir

LowerNext ==
  \E i \in 1..Len(Functions[cur.fn].entries) :
    /\ ~Lowered(Functions[cur.fn].entries[i])
    /\ \A j \in 1..(i - 1) : Lowered(Functions[cur.fn].entries[j])
    /\ VisitNode(Functions[cur.fn].entries[i])

NextBindings ==
  \/ InstantiateFunctionBuilder(MangledNameOf(cur.fn))
  \/ \E p \in Params(cur.fn) : SetParam(p)
  \/ LowerNext
  \/ \E c \in GetConstantDefs(cur.fn) : AddConstantDep(c)
  \/ GetSymbolicBindingsTupleCall

SpecBindings == InitBindings /\ [][NextBindings]_vars

(***************************************************************************)
(* One expression lowered (SpecBinop): the driver installs the builder,    *)
(* binds parameters and lowers a single expression of the function.        *)
(***************************************************************************)

InitBinop ==
  /\ mg = MgIdle
  /\ cv = CvIdle
  /\ rd = RdIdle
  /\ zp = ZpIdle
  /\ cur \in [fn : BinopFns, emit_positions : BOOLEAN]
  /\ symbolic_binding_map = NoBindings
  /\ package = EmptyPackage
  /\ Constructed

\* The driver lowers one of the function's expressions, once, after it has
\* bound the parameters.
LowerOne(n) ==
  /\ DOMAIN node_to_ir = Params(cur.fn)
  /\ VisitNode(n)

NextBinop ==
  \/ InstantiateFunctionBuilder(MangledNameOf(cur.fn))
  \/ \E p \in Params(cur.fn) : SetParam(p)
  \/ \E n \in Entries(cur.fn) : LowerOne(n)

SpecBinop == InitBinop /\ [][NextBinop]_vars

(***************************************************************************)
(* One cast lowered (SpecCast).                                            *)
(***************************************************************************)

InitCast ==
  /\ mg = MgIdle
  /\ cv = CvIdle
  /\ rd = RdIdle
  /\ zp = ZpIdle
  /\ cur \in [fn : CastFns, emit_positions : BOOLEAN]
  /\ symbolic_binding_map = NoBindings
  /\ package = EmptyPackage
  /\ Constructed

NextCast ==
  \/ InstantiateFunctionBuilder(MangledNameOf(cur.fn))
  \/ \E p \in Params(cur.fn) : SetParam(p)
  \/ \E n \in Entries(cur.fn) : LowerOne(n)

SpecCast == InitCast /\ [][NextCast]_vars

(***************************************************************************)
(* HandleMap under study: the driver installs the builder, binds the       *)
(* parameters and lowers map invocations of the function one after the     *)
(* other, each at most once, until one fails.  The package starts empty or *)
(* with the functions the invocations apply already lowered.               *)
(***************************************************************************)

LoweredFunction(name, element_type) ==
  [name |-> name, param_types |-> <<element_type>>,
   body |-> <<[IrNode("Param", <<>>, <<>>, NoValue, 0) EXCEPT !.name = "x"]>>]

LoweredCallees ==
  <<LoweredFunction(<<"_", "_", "m", "_", "_", "h">>,
                    [k |-> "bits", signed |-> FALSE, n |-> 8, ms |-> <<>>]),
    LoweredFunction(<<"_", "_", "m", "_", "_", "p", "_", "_", "8">>,
                    [k |-> "bits", signed |-> FALSE, n |-> 8, ms |-> <<>>]),
    LoweredFunction(<<"_", "_", "i", "m", "p", "_", "_", "g">>,
                    [k |-> "bits", signed |-> FALSE, n |-> 8, ms |-> <<>>])>>

InitMap ==
  /\ mg = MgIdle
  /\ cv = CvIdle
  /\ rd = RdIdle
  /\ zp = ZpIdle
  /\ cur \in [fn : MapFns, emit_positions : BOOLEAN]
  /\ symbolic_binding_map = NoBindings
  /\ package \in {EmptyPackage, LoweredCallees}
  /\ Constructed

LowerMap(n) ==
  /\ res.status = "OK"
  /\ Params(cur.fn) \subseteq DOMAIN node_to_ir
  /\ n \notin DOMAIN node_to_ir
  /\ VisitNode(n)

NextMap ==
  \/ InstantiateFunctionBuilder(MangledNameOf(cur.fn))
  \/ \E p \in Params(cur.fn) : SetParam(p)
  \/ \E n \in Entries(cur.fn) : LowerMap(n)

SpecMap == InitMap /\ [][NextMap]_vars

(***************************************************************************)
(* Properties of MangleDslxName (SpecMangle).                              *)
(***************************************************************************)

\* "__<module>__<fn>", every '.' of the module name written as '_'.
BaseName(a) ==
  <<"_", "_">> \o [i \in 1..Len(a.module_name) |->
                     IF a.module_name[i] = "." THEN "_" ELSE a.module_name[i]]
               \o <<"_", "_">> \o a.function_name

\* v1_v2_...
ValueList(vals) ==
  Flatten([i \in 1..Len(vals) |->
             (IF i = 1 THEN <<>> ELSE <<"_">>) \o IntToStr(vals[i])])

\* The values of all the bindings supplied, in the order bindings() gives them.
SuppliedValues(a) ==
  IF a.symbolic_bindings.null THEN <<>>
  ELSE [i \in 1..Len(a.symbolic_bindings.items) |-> a.symbolic_bindings.items[i].value]

\* The identifiers of the bindings supplied.
SuppliedKeys(a) ==
  IF a.symbolic_bindings.null THEN {}
  ELSE {a.symbolic_bindings.items[i].identifier :
          i \in 1..Len(a.symbolic_bindings.items)}

\* The values bound to the free keys, in the iteration order of free_keys.
FreeKeyValues(a) ==
  LET keys == BtreeSetSeq(a.free_keys, 1)
  IN  [i \in 1..Len(keys) |->
         LET j == CHOOSE j \in 1..Len(a.symbolic_bindings.items) :
                    a.symbolic_bindings.items[j].identifier = keys[i]
         IN  a.symbolic_bindings.items[j].value]

\* module "a.b", fn "foo", free keys {N, M}, bindings {N=4, M=8}
ExampleArgs ==
  [function_name |-> <<"f", "o", "o">>, free_keys |-> {"N", "M"},
   module_name |-> <<"a", ".", "b">>,
   symbolic_bindings |-> [null |-> FALSE,
                          items |-> SymbolicBindings([k \in {"N", "M"} |->
                                                        IF k = "N" THEN 4 ELSE 8])]]

\* C1 (as amended): a successful MangleDslxName returns "__<module>__<fn>", dots of
\* the module name replaced by '_', when no binding values are supplied, and
\* otherwise appends "__<v1>_<v2>_..." where the values are those of ALL the
\* bindings supplied, free or not, in the order bindings() gives them (identifier
\* order); the example (a.b, foo, {N, M}, {N=4, M=8}) yields "__a_b__foo__8_4".
C1_MangledName ==
  (mg.phase = "done" /\ mg.result.status = "OK") =>
    /\ mg.result.name =
         IF SuppliedValues(mg.args) = <<>> THEN BaseName(mg.args)
         ELSE BaseName(mg.args) \o <<"_", "_">> \o ValueList(SuppliedValues(mg.args))
    /\ mg.args = ExampleArgs =>
         mg.result.name = <<"_", "_", "a", "_", "b", "_", "_", "f", "o", "o",
                            "_", "_", "8", "_", "4">>

\* C1 witness: the example has been mangled, with a dotted module name and two values.
C1_Witness ==
  /\ mg.phase = "done"
  /\ mg.args = ExampleArgs
  /\ mg.result.status = "OK"
  /\ mg.result.name = <<"_", "_", "a", "_", "b", "_", "_", "f", "o", "o",
                        "_", "_", "8", "_", "4">>

\* C1 as stated: the appended values are the binding values taken in free-key
\* iteration order, and the example yields "__a_b__foo__4_8".
C1_AsStated ==
  (mg.phase = "done" /\ mg.result.status = "OK") =>
    /\ mg.result.name =
         IF SuppliedValues(mg.args) = <<>> THEN BaseName(mg.args)
         ELSE BaseName(mg.args) \o <<"_", "_">> \o ValueList(FreeKeyValues(mg.args))
    /\ mg.args = ExampleArgs =>
         mg.result.name = <<"_", "_", "a", "_", "b", "_", "_", "f", "o", "o",
                            "_", "_", "4", "_", "8">>

\* C2: MangleDslxName returns InvalidArgument and no name exactly when some free
\* key is not an identifier of the supplied bindings (no bindings supplied counts
\* as none bound); when every free key is bound it succeeds.
C2_UnboundFreeKey ==
  mg.phase = "done" =>
    IF \E k \in mg.args.free_keys : k \notin SuppliedKeys(mg.args)
      THEN mg.result.status = "InvalidArgument" /\ mg.result.name = <<>>
    ELSE mg.result.status = "OK" /\ mg.result.name # <<>>

\* C2 witness: a call without bindings on a function with a free key has failed.
C2_Witness ==
  /\ mg.phase = "done"
  /\ mg.args.symbolic_bindings.null
  /\ mg.args.free_keys = {"N"}
  /\ mg.result.status = "InvalidArgument"

\* The inputs the name is said to determine: module, function, binding values.
Triple(a) == <<a.module_name, a.function_name, SuppliedValues(a)>>

\* C3 as stated: mangling is deterministic, and no other (module name, function
\* name, binding values) triple is given the name this call returned.
C3_Injective ==
  (mg.phase = "done" /\ mg.result.status = "OK") =>
    /\ MangleOf(mg.args) = mg.result
    /\ \A b \in MangleArgs :
         (MangleOf(b).status = "OK" /\ MangleOf(b).name = mg.result.name)
           => Triple(b) = Triple(mg.args)

(***************************************************************************)
(* Properties of the value conversions (SpecConv).                         *)
(***************************************************************************)

\* The value is built from bits, tuples and arrays only.
RECURSIVE Representable(_)
Representable(v) ==
  /\ v.kind \in {"bits", "tuple", "array"}
  /\ \A i \in 1..Len(v.elems) : Representable(v.elems[i])

\* C4 as stated: a value built from bits, tuples and arrays converts to an
\* interpreter value and back to itself, arrays staying arrays; a value of any
\* other kind, or an interpreter value of any other tag, gives InvalidArgument.
C4_RoundTrip ==
  /\ (cv.phase = "converted" /\ Representable(cv.v)) => cv.to.status = "OK"
  /\ (cv.phase = "roundtrip" /\ Representable(cv.v)) =>
       cv.back.status = "OK" /\ cv.back.v = cv.v
  /\ (cv.phase = "converted" /\ cv.v.kind \notin {"bits", "tuple", "array"}) =>
       cv.to.status = "InvalidArgument"
  /\ (cv.phase = "lowered"
        /\ cv.iv.tag \notin {"kSBits", "kUBits", "kEnum", "kTuple", "kArray"}) =>
       cv.to.status = "InvalidArgument"

(***************************************************************************)
(* Properties of the engine (Spec).                                        *)
(***************************************************************************)

\* The call r records was a handler, called directly or through the visit
\* callback, on a node of the given kind.
Handled(r, kind) == r.call \in {"Handle", "Visit"} /\ Ast[r.node].kind = kind

\* The handles of the IR nodes the last call appended, in order.
NewOps == [i \in 1..(Len(ops) - res.ops_before) |-> res.ops_before + i]

\* C5: Use on a node without an entry returns NotFound, and on a node with an
\* entry it returns the entry's handle; either way no IR node is created and
\* the environment is left as it was.  The handle of a Constant entry is that
\* of the literal node holding the entry's value, or, for the entry of a struct
\* instance whose members are all constant, that of the instance's Tuple node.
C5_Use ==
  [][res'.call = "Use" =>
       /\ node_to_ir' = node_to_ir
       /\ ops' = ops
       /\ last_expression' = last_expression
       /\ IF res'.node \notin DOMAIN node_to_ir
            THEN res'.status = "NotFound" /\ res'.ret = 0
          ELSE /\ res'.status = "OK"
               /\ res'.ret = node_to_ir[res'.node].value
               /\ node_to_ir[res'.node].tag = "CValue" =>
                    \/ /\ ops[res'.ret].op = "Literal"
                       /\ ops[res'.ret].literal = node_to_ir[res'.node].ir_value
                    \/ /\ ops[res'.ret].op = "Tuple"
                       /\ node_to_ir[res'.node].ir_value.kind = "tuple"
                       /\ \E n \in DOMAIN node_to_ir :
                            /\ Ast[n].kind = "StructInstance"
                            /\ node_to_ir[n] = node_to_ir[res'.node]]_vars

\* C5 witness: Use has returned the Tuple node's handle for the Constant entry
\* of a struct instance.
C5_Witness ==
  /\ res.call = "Use"
  /\ res.status = "OK"
  /\ res.node \in DOMAIN node_to_ir
  /\ node_to_ir[res.node].tag = "CValue"
  /\ res.ret = node_to_ir[res.node].value
  /\ ops[res.ret].op = "Tuple"

\* C5 as stated: the handle Use returns for a Constant entry is always that of
\* a literal node.
C5_AsStated ==
  [][res'.call = "Use" =>
       /\ node_to_ir' = node_to_ir
       /\ ops' = ops
       /\ last_expression' = last_expression
       /\ IF res'.node \notin DOMAIN node_to_ir
            THEN res'.status = "NotFound" /\ res'.ret = 0
          ELSE /\ res'.status = "OK"
               /\ res'.ret = node_to_ir[res'.node].value
               /\ node_to_ir[res'.node].tag = "CValue" =>
                    /\ ops[res'.ret].op = "Literal"
                    /\ ops[res'.ret].literal = node_to_ir[res'.node].ir_value]_vars

\* C6: no engine operation removes an entry: a node that has an entry keeps one.
C6_EntriesNeverRemoved == [][DOMAIN node_to_ir \subseteq DOMAIN node_to_ir']_vars

\* C6 witness: a handler has returned with four or more entries in the environment.
C6_Witness ==
  /\ res.call \in {"Handle", "Visit"}
  /\ res.status = "OK"
  /\ Cardinality(DOMAIN node_to_ir) >= 4

\* C7 (as amended): after a handler returns OK every node the visit callback was
\* invoked on, and the handled node, has an entry in the name environment, except
\* a ConstantDef: HandleConstantDef records the entry under the constant's
\* name-def and none under the ConstantDef node itself.
C7_HandledNodeHasEntry ==
  [][(res'.call \in {"Handle", "Visit"} /\ res'.status = "OK") =>
       \A n \in {res'.node} \cup {res'.visits[i] : i \in 1..Len(res'.visits)} :
         IF Ast[n].kind = "ConstantDef"
           THEN /\ Ast[n].name_def \in DOMAIN node_to_ir'
                /\ n \in DOMAIN node_to_ir' => n \in DOMAIN node_to_ir
         ELSE n \in DOMAIN node_to_ir']_vars

\* C7 witness: HandleConstantDef has returned OK; the name-def has the entry and
\* the ConstantDef node has none.
C7_Witness ==
  /\ Handled(res, "ConstantDef")
  /\ res.status = "OK"
  /\ Ast[res.node].name_def \in DOMAIN node_to_ir
  /\ res.node \notin DOMAIN node_to_ir

\* C7 as stated: after any handler returns OK the handled node has an entry.
C7_AsStated ==
  [][(res'.call \in {"Handle", "Visit"} /\ res'.status = "OK") =>
       res'.node \in DOMAIN node_to_ir']_vars

\* The IR node is the 1-bit literal 1.
IsLiteralOne(h) == ops[h].op = "Literal" /\ ops[h].literal = BitsValue(1, 1)

\* h is the selector of the pattern matcher against the value `matched`.
RECURSIVE IsSelector(_, _, _)
RECURSIVE IsTupleSelector(_, _, _, _)
IsSelector(h, matcher, matched) ==
  IF IsLeaf(matcher)
    THEN LET leaf == Ast[matcher].leaf
         IN  CASE Ast[leaf].kind \in {"WildcardPattern", "NameDef"} -> IsLiteralOne(h)
               [] Ast[leaf].kind \in {"Number", "ColonRef"} ->
                    /\ ops[h].op = "Eq"
                    /\ ops[h].operands = <<node_to_ir[leaf].value, matched>>
               [] Ast[leaf].kind = "NameRef" ->
                    /\ ops[h].op = "Eq"
                    /\ ops[h].operands = <<node_to_ir[Ast[leaf].name_def].value, matched>>
               [] OTHER -> FALSE
  ELSE IsTupleSelector(h, matcher, Len(Ast[matcher].nodes), matched)

\* h is the And, from literal 1 on, of the selectors of the first i children of
\* the tuple pattern, child j taken against TupleIndex(matched, j).
IsTupleSelector(h, matcher, i, matched) ==
  IF i = 0 THEN IsLiteralOne(h)
  ELSE /\ ops[h].op = "And"
       /\ Len(ops[h].operands) = 2
       /\ IsTupleSelector(ops[h].operands[1], matcher, i - 1, matched)
       /\ \E m \in 1..Len(ops) :
            /\ ops[m].op = "TupleIndex"
            /\ ops[m].operands = <<matched>>
            /\ ops[m].imm = <<i - 1>>
            /\ IsSelector(ops[h].operands[2], Ast[matcher].nodes[i], m)

\* h is the selector of an arm: that of its pattern, or the Or of its patterns'.
IsArmSelector(h, arm, matched) ==
  LET patterns == Ast[arm].patterns
  IN  IF Len(patterns) = 1 THEN IsSelector(h, patterns[1], matched)
      ELSE /\ ops[h].op = "Or"
           /\ Len(ops[h].operands) = Len(patterns)
           /\ \A j \in 1..Len(patterns) :
                IsSelector(ops[h].operands[j], patterns[j], matched)

\* C8: a HandleMatch that returns OK on a match of k arms has emitted exactly one
\* MatchTrue, the entry of the match node; its operands are k-1 selectors, then
\* the k-1 lowered arm expressions in declaration order, then the lowered
\* expression of the k-th arm as default; selector i is the selector of arm i's
\* pattern, or the Or of the selectors of its patterns, and a tuple pattern's
\* selector is the And of its children's selectors over TupleIndex(matched, i).
C8_MatchTrue ==
  (Handled(res, "Match") /\ res.status = "OK") =>
    LET node == res.node
        arms == Ast[node].arms
        k == Len(arms)
        mt == node_to_ir[node].value
        matched == node_to_ir[Ast[node].matched].value
    IN  /\ k >= 1
        /\ Len(Ast[arms[k]].patterns) = 1
        /\ {i \in 1..Len(NewOps) : ops[NewOps[i]].op = "MatchTrue"}
             = {i \in 1..Len(NewOps) : NewOps[i] = mt}
        /\ mt > res.ops_before
        /\ ops[mt].op = "MatchTrue"
        /\ Len(ops[mt].operands) = 2 * (k - 1) + 1
        /\ \A i \in 1..(k - 1) :
             /\ IsArmSelector(ops[mt].operands[i], arms[i], matched)
             /\ ops[mt].operands[k - 1 + i] = node_to_ir[Ast[arms[i]].expr].value
        /\ ops[mt].operands[2 * k - 1] = node_to_ir[Ast[arms[k]].expr].value

\* C8 witness: HandleMatch has returned OK on a match of two arms, the first
\* with three patterns: MatchTrue([Or(...)], [value], default).
C8_Witness ==
  /\ Handled(res, "Match")
  /\ res.status = "OK"
  /\ Len(Ast[res.node].arms) = 2
  /\ Len(Ast[Ast[res.node].arms[1]].patterns) = 3
  /\ ops[Len(ops)].op = "MatchTrue"
  /\ Len(ops[Len(ops)].operands) = 3
  /\ ops[ops[Len(ops)].operands[1]].op = "Or"

\* The final arm of the match is not exactly one irrefutable pattern.
UnsupportedMatch(node) ==
  LET arms == Ast[node].arms
  IN  \/ arms = <<>>
      \/ ~IsIrrefutable(Ast[arms[Len(arms)]].patterns[1])
      \/ Len(Ast[arms[Len(arms)]].patterns) > 1

\* The final arm has several patterns, the first of them irrefutable.
MultiPatternDefault(node) ==
  LET arms == Ast[node].arms
  IN  /\ arms # <<>>
      /\ IsIrrefutable(Ast[arms[Len(arms)]].patterns[1])
      /\ Len(Ast[arms[Len(arms)]].patterns) > 1

\* C9 (as amended): on a match whose final arm is not exactly one irrefutable
\* pattern HandleMatch fails and records no entry for the match node.  With no
\* arms, or a final arm whose first pattern is refutable, the status is
\* Unimplemented.  With a final arm of several patterns, the first irrefutable,
\* the matched expression is lowered and its type resolved first: the status is
\* Unimplemented when that succeeds, and otherwise the error of that step
\* (Internal when the matched expression has no type).
C9_Unimplemented ==
  [][(res'.call \in {"Handle", "Visit"} /\ Ast[res'.node].kind = "Match"
        /\ UnsupportedMatch(res'.node)) =>
       /\ res'.status # "OK"
       /\ res'.node \in DOMAIN node_to_ir' => res'.node \in DOMAIN node_to_ir
       /\ ~MultiPatternDefault(res'.node) => res'.status = "Unimplemented"
       /\ MultiPatternDefault(res'.node) =>
            IF Ast[res'.node].matched \notin DOMAIN node_to_ir'
              THEN res'.status \in {"NotFound", "Internal"}
            ELSE IF ~HasType(Ast[res'.node].matched) THEN res'.status = "Internal"
            ELSE res'.status = "Unimplemented"]_vars

\* C9 witness: HandleMatch has lowered the matched expression of a match whose
\* final arm has two patterns, and has returned Unimplemented.
C9_Witness ==
  /\ Handled(res, "Match")
  /\ MultiPatternDefault(res.node)
  /\ Ast[res.node].matched \in DOMAIN node_to_ir
  /\ res.status = "Unimplemented"
  /\ res.node \notin DOMAIN node_to_ir

\* C9 as stated: HandleMatch returns Unimplemented, and records no entry for the
\* match node, for every match whose final arm is not exactly one irrefutable
\* pattern.
C9_AsStated ==
  [][(res'.call \in {"Handle", "Visit"} /\ Ast[res'.node].kind = "Match"
        /\ UnsupportedMatch(res'.node)) =>
       /\ res'.status = "Unimplemented"
       /\ res'.node \in DOMAIN node_to_ir' => res'.node \in DOMAIN node_to_ir]_vars

\* The non-root nodes of a binding tree, in preorder.
RECURSIVE PreorderNodes(_)
PreorderNodes(tree) ==
  Flatten([i \in 1..Len(Ast[tree].nodes) |->
             <<Ast[tree].nodes[i]>> \o
             (IF IsLeaf(Ast[tree].nodes[i]) THEN <<>>
              ELSE PreorderNodes(Ast[tree].nodes[i]))])

\* The binding-tree node x is a child of.
ParentOf(x) ==
  CHOOSE p \in Nodes :
    Ast[p].kind = "NameDefTree" /\ \E i \in 1..Len(Ast[p].nodes) : Ast[p].nodes[i] = x

\* The index of x among its siblings, leftmost 0.
SiblingIndex(x) ==
  (CHOOSE i \in 1..Len(Ast[ParentOf(x)].nodes) : Ast[ParentOf(x)].nodes[i] = x) - 1

\* The depth of x in the tree rooted at root; the root's children are at depth 1.
RECURSIVE DepthOf(_, _)
DepthOf(x, root) == IF ParentOf(x) = root THEN 1 ELSE 1 + DepthOf(ParentOf(x), root)

\* What the walk of the last call did at the nodes of the tree, in order.
WalkOf(tree) ==
  LET InTree(w) == \E j \in 1..Len(PreorderNodes(tree)) : PreorderNodes(tree)[j] = w.node
  IN  SelectSeq(res.walk, InTree)

\* C10: a HandleLet that returns OK on a non-leaf binding tree has walked the
\* non-root nodes of the tree in preorder and emitted exactly one TupleIndex per
\* node, in that order: it indexes the IR value of the node's parent (the RHS for
\* the children of the root) at the node's index among its siblings, it is the
\* node's entry, and a leaf's name has the same entry.  When a node at depth d is
\* walked the stack of parents holds d entries before the push.
C10_LetTupleIndex ==
  (Handled(res, "Let") /\ res.status = "OK" /\ ~IsLeaf(Ast[res.node].name_def_tree)) =>
    LET tree == Ast[res.node].name_def_tree
        pre == PreorderNodes(tree)
        W == WalkOf(tree)
        rhs == node_to_ir[Ast[res.node].rhs].value
    IN  /\ [j \in 1..Len(W) |-> W[j].node] = pre
        /\ {NewOps[i] : i \in {i \in 1..Len(NewOps) : ops[NewOps[i]].op = "TupleIndex"}}
             = {res.walk[j].handle : j \in 1..Len(res.walk)}
        /\ \A j \in 1..Len(W) : \A jj \in 1..Len(W) : j < jj => W[j].handle < W[jj].handle
        /\ \A j \in 1..Len(W) :
             LET x == W[j].node
                 h == W[j].handle
             IN  /\ ops[h].op = "TupleIndex"
                 /\ ops[h].operands =
                      <<IF ParentOf(x) = tree THEN rhs ELSE node_to_ir[ParentOf(x)].value>>
                 /\ ops[h].imm = <<SiblingIndex(x)>>
                 /\ node_to_ir[x] = BValue(h)
                 /\ IsLeaf(x) => node_to_ir[Ast[x].leaf] = BValue(h)
                 /\ W[j].depth = DepthOf(x, tree)

\* C10 witness: `let (a, (b, c)) = e` has been lowered to TupleIndex(e, 0),
\* TupleIndex(e, 1), TupleIndex(TupleIndex(e, 1), 0), TupleIndex(TupleIndex(e, 1), 1).
C10_Witness ==
  /\ Handled(res, "Let")
  /\ res.status = "OK"
  /\ Functions[cur.fn].name = "let_tuple"
  /\ Len(res.walk) = 4
  /\ LET e == node_to_ir[Ast[res.node].rhs].value
         h == [j \in 1..4 |-> res.walk[j].handle]
     IN  /\ ops[h[1]].operands = <<e>> /\ ops[h[1]].imm = <<0>>
         /\ ops[h[2]].operands = <<e>> /\ ops[h[2]].imm = <<1>>
         /\ ops[h[3]].operands = <<h[2]>> /\ ops[h[3]].imm = <<0>>
         /\ ops[h[4]].operands = <<h[2]>> /\ ops[h[4]].imm = <<1>>

(***************************************************************************)
(* Constant tuples and struct instances (Spec).                            *)
(***************************************************************************)

\* The member expressions of a tuple or struct instance, in declaration order.
MemberExprs(n) ==
  IF Ast[n].kind = "XlsTuple" THEN Ast[n].members
  ELSE GetOrderedMembers(n, DerefStruct(Ast[n].struct_def).def)

\* C11: after the handler of an XlsTuple or a StructInstance returns OK, the
\* node's entry is a Constant holding the tuple of the members' values in
\* declaration order when every member has a Constant entry, and it is
\* Computed when some member has not.
C11_ConstantTuple ==
  (/\ res.call \in {"Handle", "Visit"}
   /\ res.status = "OK"
   /\ Ast[res.node].kind \in {"XlsTuple", "StructInstance"})
  => LET ms == MemberExprs(res.node)
     IN  IF \A i \in 1..Len(ms) : node_to_ir[ms[i]].tag = "CValue"
           THEN /\ node_to_ir[res.node].tag = "CValue"
                /\ node_to_ir[res.node].ir_value =
                     TupleValue([i \in 1..Len(ms) |-> node_to_ir[ms[i]].ir_value])
         ELSE node_to_ir[res.node].tag = "BValue"

(***************************************************************************)
(* Properties of the symbolic bindings tuple (SpecBindings).               *)
(***************************************************************************)

\* The identifiers of the constants of the module being lowered.
ModuleConstantIdentifiers == {ConstantIdentifier(c) : c \in GetConstantDefs(cur.fn)}

\* The position of an identifier in the collation order.
IdIndex(id) == CHOOSE i \in 1..Len(Identifiers) : Identifiers[i] = id

\* C12: GetSymbolicBindingsTuple returns exactly the current bindings whose
\* identifier is not that of a module-level constant, each with its value, in
\* identifier order, and it changes neither the binding map nor the name
\* environment.
C12_BindingsTuple ==
  [][res'.call = "GetSymbolicBindingsTuple" =>
       LET t == res'.tuple
           kept == (DOMAIN symbolic_binding_map) \ ModuleConstantIdentifiers
       IN  /\ {t[i].identifier : i \in 1..Len(t)} = kept
           /\ Len(t) = Cardinality(kept)
           /\ \A i \in 1..Len(t) : t[i].value = symbolic_binding_map[t[i].identifier]
           /\ \A i \in 1..Len(t) : \A j \in 1..Len(t) :
                i < j => IdIndex(t[i].identifier) < IdIndex(t[j].identifier)
           /\ symbolic_binding_map' = symbolic_binding_map
           /\ node_to_ir' = node_to_ir]_vars

\* C12 witness: with bindings M and N in a module whose only constant is N, and
\* a non-empty name environment, the tuple returned holds M alone.
C12_Witness ==
  /\ res.call = "GetSymbolicBindingsTuple"
  /\ DOMAIN symbolic_binding_map = {"M", "N"}
  /\ ModuleConstantIdentifiers = {"N"}
  /\ DOMAIN node_to_ir # {}
  /\ res.tuple = <<[identifier |-> "M", value |-> symbolic_binding_map["M"]]>>

\* The identifiers of the constants recorded through AddConstantDep.
RecordedDepIdentifiers ==
  {ConstantIdentifier(constant_deps[i]) : i \in 1..Len(constant_deps)}

\* C13: the tuple GetSymbolicBindingsTuple returns is formed from the constants
\* recorded through AddConstantDep: it holds exactly the bindings whose
\* identifier is not that of a recorded constant dep.
C13_ConstantDeps ==
  res.call = "GetSymbolicBindingsTuple" =>
    {res.tuple[i].identifier : i \in 1..Len(res.tuple)}
      = (DOMAIN symbolic_binding_map) \ RecordedDepIdentifiers

(***************************************************************************)
(* The function builder (Spec).                                            *)
(***************************************************************************)

\* C14: the function builder is installed at most once.  A call of
\* InstantiateFunctionBuilder succeeds only while no builder is installed; once
\* a builder is installed no step replaces it or discards its nodes, and a
\* second InstantiateFunctionBuilder is a fatal check failure that leaves the
\* builder as it was.
C14_BuilderInstalledOnce ==
  [][/\ (res'.call = "InstantiateFunctionBuilder" /\ res'.status = "OK")
          => (function_builder = <<>> /\ function_builder' # <<>>)
     /\ function_builder # <<>>
          => /\ function_builder' = function_builder
             /\ Len(ops') >= Len(ops)
             /\ res'.call = "InstantiateFunctionBuilder"
                  => (res'.status = "Fatal" /\ ops' = ops)]_vars

\* C14 witness: InstantiateFunctionBuilder was called on an engine whose
\* builder already held nodes; the call failed fatally and the builder and
\* its nodes are still there.
C14_Witness ==
  /\ res.call = "InstantiateFunctionBuilder"
  /\ res.status = "Fatal"
  /\ function_builder = <<MangledNameOf(cur.fn)>>
  /\ Len(ops) > 0
  /\ DOMAIN node_to_ir # {}

(***************************************************************************)
(* Properties of HandleBinop (SpecBinop).                                  *)
(***************************************************************************)

\* The IR op the claim gives a binop kind, for a signed or unsigned LHS.
C15_Op(kind, signed) ==
  CASE kind = "Mul" -> IF signed THEN "SMul" ELSE "UMul"
    [] kind = "Ge" -> IF signed THEN "SGe" ELSE "UGe"
    [] kind = "Gt" -> IF signed THEN "SGt" ELSE "UGt"
    [] kind = "Le" -> IF signed THEN "SLe" ELSE "ULe"
    [] kind = "Lt" -> IF signed THEN "SLt" ELSE "ULt"
    [] kind = "Div" -> "UDiv"
    [] kind \in {"Add", "Sub", "Eq", "Ne", "Shll", "Shrl", "Shra", "And", "Or", "Xor"} -> kind
    [] kind = "LogicalAnd" -> "And"
    [] kind = "LogicalOr" -> "Or"

\* The LHS type of a binop is a bits type marked signed.
LhsSigned(n) == TypeInfo[Ast[n].lhs].k = "bits" /\ TypeInfo[Ast[n].lhs].signed

\* C15: the IR node HandleBinop records for a binop other than Concat has the
\* op fixed by the binop kind and the signedness of the LHS type alone, applied
\* to the handles of the LHS and the RHS.
C15_BinopOp ==
  (Handled(res, "Binop") /\ res.status = "OK" /\ Ast[res.node].op # "Concat")
  => LET n == res.node
         h == node_to_ir[n].value
     IN  /\ h = Len(ops)
         /\ ops[h].op = C15_Op(Ast[n].op, LhsSigned(n))
         /\ ops[h].operands = <<node_to_ir[Ast[n].lhs].value, node_to_ir[Ast[n].rhs].value>>

\* C15 witness: x >= y with x signed and y unsigned has been lowered to SGe.
C15_Witness ==
  /\ Handled(res, "Binop")
  /\ res.status = "OK"
  /\ Ast[res.node].op = "Ge"
  /\ LhsSigned(res.node)
  /\ ~TypeInfo[Ast[res.node].rhs].signed
  /\ ops[node_to_ir[res.node].value].op = "SGe"

(***************************************************************************)
(* Properties of HandleCast (SpecCast).                                    *)
(***************************************************************************)

\* The bit width of the result of a BitSlice, SignExtend or ZeroExtend node.
ResultWidth(n) == IF n.op = "BitSlice" THEN n.imm[2] ELSE n.imm[1]

\* A cast whose input and output types are both recorded and not arrays.
IsBitsCast(n) ==
  /\ Ast[n].kind = "Cast"
  /\ HasType(n) /\ HasType(Ast[n].expr)
  /\ TypeInfo[n].k # "array" /\ TypeInfo[Ast[n].expr].k # "array"

\* C16: a cast between two non-array types of widths old and new is lowered to
\* BitSlice(input, 0, new) when new < old, and otherwise to SignExtend(input,
\* new) for a signed input type and ZeroExtend(input, new) for an unsigned one;
\* the result has width new.
C16_CastBits ==
  (Handled(res, "Cast") /\ res.status = "OK" /\ IsBitsCast(res.node))
  => LET n == res.node
         new == GetTotalBitCount(TypeInfo[n])
         old == GetTotalBitCount(TypeInfo[Ast[n].expr])
         h == node_to_ir[n].value
         input == node_to_ir[Ast[n].expr].value
     IN  /\ h = Len(ops)
         /\ ops[h].operands = <<input>>
         /\ ResultWidth(ops[h]) = new
         /\ IF new < old THEN ops[h].op = "BitSlice" /\ ops[h].imm = <<0, new>>
            ELSE IF TypeInfo[Ast[n].expr].signed
              THEN ops[h].op = "SignExtend" /\ ops[h].imm = <<new>>
            ELSE ops[h].op = "ZeroExtend" /\ ops[h].imm = <<new>>

\* C16 witness: `s as s8` with s: s4 has been lowered to SignExtend(s, 8).
C16_Witness ==
  /\ Handled(res, "Cast")
  /\ res.status = "OK"
  /\ IsBitsCast(res.node)
  /\ TypeInfo[Ast[res.node].expr] = [k |-> "bits", signed |-> TRUE, n |-> 4, ms |-> <<>>]
  /\ GetTotalBitCount(TypeInfo[res.node]) = 8
  /\ ops[node_to_ir[res.node].value].op = "SignExtend"
  /\ ops[node_to_ir[res.node].value].imm = <<8>>

\* A cast of a bits value to an array type whose total width is that of the input.
IsBitsToArrayCast(n) ==
  /\ Ast[n].kind = "Cast"
  /\ HasType(n) /\ HasType(Ast[n].expr)
  /\ TypeInfo[n].k = "array" /\ TypeInfo[Ast[n].expr].k = "bits"
  /\ TypeInfo[Ast[n].expr].n = TypeInfo[n].n * GetTotalBitCount(TypeInfo[n].ms[1])

\* C17: a cast of a bits value of width n*w to an array of n elements of width
\* w is lowered to an IR Array of exactly n operands, operand i (counted from
\* 0) being BitSlice(bits, (n-1-i)*w, w): element 0 holds the most significant
\* w bits and element n-1 the least significant.
C17_CastToArray ==
  (Handled(res, "Cast") /\ res.status = "OK" /\ IsBitsToArrayCast(res.node))
  => LET node == res.node
         n == TypeInfo[node].n
         w == GetTotalBitCount(TypeInfo[node].ms[1])
         h == node_to_ir[node].value
         bits == node_to_ir[Ast[node].expr].value
     IN  /\ h = Len(ops)
         /\ ops[h].op = "Array"
         /\ Len(ops[h].operands) = n
         /\ \A i \in 0..(n - 1) :
              LET e == ops[ops[h].operands[i + 1]]
              IN  /\ e.op = "BitSlice"
                  /\ e.operands = <<bits>>
                  /\ e.imm = <<(n - 1 - i) * w, w>>

\* C17 witness: `x as u2[4]` with x: u8 has been lowered to the array of
\* BitSlice(x, 6, 2), BitSlice(x, 4, 2), BitSlice(x, 2, 2), BitSlice(x, 0, 2).
C17_Witness ==
  /\ Handled(res, "Cast")
  /\ res.status = "OK"
  /\ IsBitsToArrayCast(res.node)
  /\ TypeInfo[res.node].n = 4
  /\ LET a == ops[node_to_ir[res.node].value]
     IN  /\ a.op = "Array"
         /\ [i \in 1..4 |-> ops[a.operands[i]].imm] = <<<<6, 2>>, <<4, 2>>, <<2, 2>>, <<0, 2>>>>

(***************************************************************************)
(* Properties of DefAlias (Spec).                                          *)
(***************************************************************************)

\* C18: a DefAlias(from, to) that finds `from` gives `to` the entry of `from`
\* (same variant, value and handle), leaves every other entry as it was, adds
\* no IR node, and sets the name of the entry's IR node to the identifier of
\* `to` exactly when `to` is a name definition and the entry is Computed.
C18_DefAliasFrame ==
  [][(res'.call = "DefAlias" /\ res'.status = "OK")
       => LET from == res'.node
              to == res'.to
          IN  /\ from \in DOMAIN node_to_ir
              /\ DOMAIN node_to_ir' = (DOMAIN node_to_ir) \cup {to}
              /\ node_to_ir'[to] = node_to_ir[from]
              /\ \A k \in (DOMAIN node_to_ir) \ {to} : node_to_ir'[k] = node_to_ir[k]
              /\ Len(ops') = Len(ops)
              /\ IF Ast[to].kind = "NameDef" /\ node_to_ir[from].tag = "BValue"
                   THEN ops' = [ops EXCEPT ![node_to_ir[from].value].name =
                                             Ast[to].identifier]
                 ELSE ops' = ops]_vars

\* C18 witness: the Computed entry of one parameter has been aliased to the
\* name definition of another, and its IR node now carries the identifier of
\* the latter.
C18_Witness ==
  /\ res.call = "DefAlias"
  /\ res.status = "OK"
  /\ Ast[res.to].kind = "NameDef"
  /\ Ast[res.node].kind = "NameDef"
  /\ Ast[res.node].identifier # Ast[res.to].identifier
  /\ node_to_ir[res.node].tag = "BValue"
  /\ node_to_ir[res.to] = node_to_ir[res.node]
  /\ ops[node_to_ir[res.to].value].name = Ast[res.to].identifier

(***************************************************************************)
(* C19, C20: map invocations                                               *)
(***************************************************************************)

\* The callee of a map invocation, and the invocations that apply clz or ctz.
Callee(n) == Ast[n].args[2]
IsBuiltinMap(n) ==
  /\ Ast[n].kind = "Invocation"
  /\ Ast[Callee(n)].kind = "NameRef"
  /\ Ast[Ast[Callee(n)].name_def].identifier \in {"clz", "ctz"}

\* The mangled name of the wrapper of a builtin map whose bindings are recorded.
WrapperName(n) ==
  MangleDslxName(Ast[Ast[Callee(n)].name_def].chars, {}, Functions[cur.fn].module,
                 InvocationBindings[n]).name

WrappersNamed(name) == {i \in 1..Len(package) : package[i].name = name}

IsWrapperOf(f, n) ==
  /\ Len(f.param_types) = 1
  /\ Len(f.body) = 2
  /\ f.body[1].op = "Param"
  /\ f.body[2].op = (IF Ast[Ast[Callee(n)].name_def].identifier = "clz"
                       THEN "Clz" ELSE "Ctz")
  /\ f.body[2].operands = <<1>>

LoweredMaps == {n \in Entries(cur.fn) \cap DOMAIN node_to_ir : Ast[n].kind = "Invocation"}

\* C19: however many maps with clz or ctz were lowered, the package holds no
\* two functions of one name; for each lowered call site it holds exactly one
\* function of the mangled name, the wrapper whose body is the builtin applied
\* to its single parameter, and the call site's node is a Map of the array's
\* handle with that wrapper; the builder holds one Map node per lowered call
\* site.
C19_WrapperOnce ==
  /\ \A i, j \in 1..Len(package) : package[i].name = package[j].name => i = j
  /\ \A n \in LoweredMaps :
       IsBuiltinMap(n) =>
         /\ Cardinality(WrappersNamed(WrapperName(n))) = 1
         /\ \A i \in WrappersNamed(WrapperName(n)) :
              /\ IsWrapperOf(package[i], n)
              /\ ops[node_to_ir[n].value].op = "Map"
              /\ ops[node_to_ir[n].value].operands = <<node_to_ir[Ast[n].args[1]].value>>
              /\ ops[node_to_ir[n].value].imm = <<i>>
  /\ Cardinality({h \in 1..Len(ops) : ops[h].op = "Map"}) = Cardinality(LoweredMaps)

\* Two call sites with one mangled name are lowered, and so is a call site
\* with another.
C19_Witness ==
  \E n1, n2, n3 \in LoweredMaps :
    /\ IsBuiltinMap(n1) /\ IsBuiltinMap(n2) /\ IsBuiltinMap(n3)
    /\ n1 # n2
    /\ WrapperName(n1) = WrapperName(n2)
    /\ WrapperName(n3) # WrapperName(n1)
    /\ node_to_ir[n1].value # node_to_ir[n2].value
    /\ Len(package) >= 2

\* The callee of the invocation is parametric: a parametric builtin, or a
\* function with free parametric keys.
IsParametricCallee(n) ==
  \/ /\ Ast[Callee(n)].kind = "NameRef"
     /\ \/ Ast[Ast[Callee(n)].name_def].identifier \in ParametricBuiltins
        \/ \E f \in GetModuleFunction(Functions[cur.fn].module,
                                      Ast[Ast[Callee(n)].name_def].identifier) :
             Ast[f].free_keys # <<>>

\* C20: lowering a map invocation whose array argument is bound returns
\* Internal when no invocation bindings are recorded for it and its callee is
\* parametric, and Unimplemented when its callee is neither a name reference
\* nor a colon reference.
C20_MapErrors ==
  \A n \in Entries(cur.fn) :
    (/\ res.call = "Visit" /\ res.node = n /\ Ast[n].kind = "Invocation"
     /\ Ast[Ast[n].args[1]].name_def \in Params(cur.fn)) =>
      /\ (GetInvocationBindings(n) = <<>> /\ IsParametricCallee(n))
           => res.status = "Internal"
      /\ Ast[Callee(n)].kind \notin {"NameRef", "ColonRef"}
           => res.status = "Unimplemented"

(***************************************************************************)
(* C21: a failing sub-step                                                 *)
(***************************************************************************)

\* The call the step makes is a handler call that returns an error.
HandlerFailed(r) == r.call \in {"Handle", "Visit"} /\ r.status \notin {"OK", "Fatal"}

LeafPatterns(arm) ==
  {Ast[arm].patterns[j] : j \in {j \in 1..Len(Ast[arm].patterns) :
                                   IsLeaf(Ast[arm].patterns[j])}}

\* The positions, in the visits of the last call, of the arm's pattern
\* literals and of its expression.
PatternVisits(arm) ==
  {p \in 1..Len(res.visits) :
     \E pat \in LeafPatterns(arm) : res.visits[p] = Ast[pat].leaf}
ExprVisits(arm) == {p \in 1..Len(res.visits) : res.visits[p] = Ast[arm].expr}

\* The IR nodes the last call appended as selectors of the arm's leaf
\* patterns, and as the value of its expression.
PatternOps(arm) ==
  {h \in (res.ops_before + 1)..Len(ops) :
     \E pat \in LeafPatterns(arm) :
       /\ Ast[Ast[pat].leaf].kind # "NameDef"
       /\ pat \in DOMAIN node_to_ir
       /\ node_to_ir[pat].value = h}
ExprOps(arm) ==
  {h \in (res.ops_before + 1)..Len(ops) :
     Ast[arm].expr \in DOMAIN node_to_ir /\ node_to_ir[Ast[arm].expr].value = h}

AllBefore(S, T) == \A p \in S, q \in T : p < q

\* The first arm is lowered wholly before the second.
ArmBefore(a, b) ==
  /\ AllBefore(PatternVisits(a) \cup ExprVisits(a), PatternVisits(b) \cup ExprVisits(b))
  /\ AllBefore(PatternOps(a) \cup ExprOps(a), PatternOps(b) \cup ExprOps(b))

PatternsBeforeExpr(a) ==
  /\ AllBefore(PatternVisits(a), ExprVisits(a))
  /\ AllBefore(PatternOps(a), ExprOps(a))

MatchLowered == Handled(res, "Match") /\ res.status = "OK"

\* C22: HandleMatch lowers the last arm (the default) first, then the other
\* arms in declaration order, the patterns of an arm before its expression.
C22_ArmOrder ==
  MatchLowered =>
    LET arms == Ast[res.node].arms
    IN  /\ \A i \in 1..(Len(arms) - 1) : ArmBefore(arms[Len(arms)], arms[i])
        /\ \A i, j \in 1..(Len(arms) - 1) : i < j => ArmBefore(arms[i], arms[j])
        /\ \A i \in 1..Len(arms) : PatternsBeforeExpr(arms[i])

\* A match of three arms is lowered, each arm appending a selector and a value.
C22_Witness ==
  /\ MatchLowered
  /\ Len(Ast[res.node].arms) = 3
  /\ \A i \in 1..3 : ExprOps(Ast[res.node].arms[i]) # {}
                     /\ ExprVisits(Ast[res.node].arms[i]) # {}
  /\ \A i \in 1..2 : PatternOps(Ast[res.node].arms[i]) # {}
                     /\ PatternVisits(Ast[res.node].arms[i]) # {}

\* C22 as stated: every arm is lowered before the arms declared after it.
C22_AsStated ==
  MatchLowered =>
    LET arms == Ast[res.node].arms
    IN  \A i, j \in 1..Len(arms) : i < j => ArmBefore(arms[i], arms[j])

(***************************************************************************)
(* C23: the order of the IR nodes and the Def calls.                       *)
(***************************************************************************)

\* The handles of the Def calls of the last call, in call order.
DefHandles == [i \in 1..Len(res.defs) |-> res.defs[i].handle]

\* The nodes HandleMatcher, HandleMatch, HandleSplatStructInstance,
\* CastToArray and CastFromArray append through the function builder without
\* a Def call.
AuxiliaryOps == {"Literal", "TupleIndex", "And", "Or", "MatchTrue", "BitSlice", "ArrayIndex"}

\* The sub-expressions a handler lowers for its node.
SubExpressions(n) ==
  CASE Ast[n].kind \in {"Unop", "Binop", "XlsTuple", "Ternary"} ->
         {Operands(n)[i] : i \in 1..Len(Operands(n))}
    [] Ast[n].kind = "Let" -> {Ast[n].rhs, Ast[n].body}
    [] Ast[n].kind = "Match" ->
         {Ast[n].matched} \cup {Ast[Ast[n].arms[i]].expr : i \in 1..Len(Ast[n].arms)}
    [] Ast[n].kind = "StructInstance" ->
         {Ast[n].members[i][2] : i \in 1..Len(Ast[n].members)}
    [] Ast[n].kind = "SplatStructInstance" ->
         {Ast[n].splatted} \cup {Ast[n].members[i][2] : i \in 1..Len(Ast[n].members)}
    [] Ast[n].kind = "Cast" -> {Ast[n].expr}
    [] Ast[n].kind = "Invocation" -> {Ast[n].args[1]}
    [] OTHER -> {}

SeqRange(q) == {q[i] : i \in 1..Len(q)}

\* The leaf patterns of an arm, those inside tuple patterns included.
AllLeafPatterns(arm) ==
  UNION {IF IsLeaf(p) THEN {p} ELSE {x \in SeqRange(PreorderNodes(p)) : IsLeaf(x)} :
         p \in SeqRange(Ast[arm].patterns)}

\* The values HandleMatcher can have been handed for the pattern p of a match
\* on the value top: top for a pattern of an arm, and for a member of a tuple
\* pattern a TupleIndex, appended by the last call, of the tuple's value.
RECURSIVE MatchedValues(_, _, _)
MatchedValues(arm, p, top) ==
  IF p \in SeqRange(Ast[arm].patterns) THEN {top}
  ELSE {m \in SeqRange(NewOps) :
          /\ ops[m].op = "TupleIndex"
          /\ ops[m].imm = <<SiblingIndex(p)>>
          /\ ops[m].operands[1] \in MatchedValues(arm, ParentOf(p), top)}

\* The Def call d of the last call made the selector of the leaf pattern p,
\* matched against m.
LeafSelector(p, m, d) ==
  LET leaf == Ast[p].leaf
      h == d.handle
  IN  CASE Ast[leaf].kind = "NameDef" ->
             /\ d.node = leaf
             /\ IsLiteralOne(h)
             /\ h # m
             /\ node_to_ir[leaf] = BValue(m)
             /\ node_to_ir[p] = BValue(m)
        [] Ast[leaf].kind = "WildcardPattern" ->
             /\ d.node = p
             /\ IsLiteralOne(h)
             /\ node_to_ir[p] = BValue(h)
             /\ leaf \notin DOMAIN node_to_ir
        [] Ast[leaf].kind \in {"Number", "ColonRef"} ->
             /\ d.node = p
             /\ ops[h].op = "Eq"
             /\ ops[h].operands = <<node_to_ir[leaf].value, m>>
             /\ node_to_ir[p] = BValue(h)
        [] Ast[leaf].kind = "NameRef" ->
             /\ d.node = p
             /\ ops[h].op = "Eq"
             /\ ops[h].operands = <<node_to_ir[Ast[leaf].name_def].value, m>>
             /\ node_to_ir[p] = BValue(h)
        [] OTHER -> FALSE

\* C24: after HandleMatch has returned OK, every leaf pattern has had its
\* selector made by one Def call: for a NameDef leaf a 1-bit literal 1, the
\* name-def and the pattern node both bound to the matched value and not to
\* the literal; for a wildcard a literal 1 bound to the pattern node, the
\* wildcard itself without an entry; for a Number or ColonRef leaf
\* Eq(value of the lowered leaf, matched value); for a NameRef leaf
\* Eq(value of the referenced name-def, matched value).  The selector of a
\* leaf that is the only pattern of an arm before the last is the arm's
\* selector in the MatchTrue node.
C24_LeafMatchers ==
  MatchLowered =>
    LET arms == Ast[res.node].arms
        top == node_to_ir[Ast[res.node].matched].value
        mt == node_to_ir[res.node].value
    IN  \A i \in 1..Len(arms) : \A p \in AllLeafPatterns(arms[i]) :
          \E m \in MatchedValues(arms[i], p, top) :
            \E j \in 1..Len(res.defs) :
              /\ LeafSelector(p, m, res.defs[j])
              /\ (i < Len(arms) /\ Ast[arms[i]].patterns = <<p>>)
                   => ops[mt].operands[i] = res.defs[j].handle

\* C24 where it applies: a match on a tuple was lowered whose patterns hold a
\* Number leaf, a NameRef leaf, a NameDef leaf and a wildcard.
C24_Witness ==
  /\ MatchLowered
  /\ \A k \in {"Number", "NameRef", "NameDef", "WildcardPattern"} :
       \E i \in 1..Len(Ast[res.node].arms) :
         \E p \in AllLeafPatterns(Ast[res.node].arms[i]) :
           /\ Ast[Ast[p].leaf].kind = k
           /\ p \in DOMAIN node_to_ir
           /\ \E j \in 1..Len(res.defs) : res.defs[j].node \in {p, Ast[p].leaf}

(***************************************************************************)
(* C25: last_expression.                                                   *)
(***************************************************************************)

\* The bodies of the Let nodes.
LetBodies == {Ast[n].body : n \in {n \in Nodes : Ast[n].kind = "Let"}}

\* C25: the first successful HandleLet, on a Let L, leaves last_expression at
\* L's body, and once last_expression is the body of a Let no handler call on
\* a Let or a Match changes it.
C25_LastExpression ==
  [][(res'.call \in {"Handle", "Visit"} /\ res'.status = "OK"
        /\ Ast[res'.node].kind \in {"Let", "Match"}) =>
       /\ (Ast[res'.node].kind = "Let" /\ last_expression = 0)
            => last_expression' = Ast[res'.node].body
       /\ last_expression \in LetBodies => last_expression' = last_expression]_vars

(***************************************************************************)
(* ResolveType and ResolveDim under study (SpecResolve): one ResolveType   *)
(* call on a node of a type table whose dimensions may be parametric       *)
(* expressions, under the bindings of symbolic_binding_map_.  The loop of  *)
(* ResolveDim runs one iteration per step.                                 *)
(***************************************************************************)

\* ConcreteTypeDim: an integer or a parametric expression over symbols.
DimInt(v) == [k |-> "int", v |-> v]
DimSym(id) == [k |-> "sym", id |-> id]
DimAdd(l, r) == [k |-> "add", l |-> l, r |-> r]
DimMul(l, r) == [k |-> "mul", l |-> l, r |-> r]

\* absl::holds_alternative<ConcreteTypeDim::OwnedParametric>(dim.value())
HoldsParametric(dim) == dim.k # "int"

\* ParametricExpression::Evaluate: a symbol becomes the value the environment
\* binds it to and stays itself when the environment binds nothing to it; a
\* sum or product of two integers becomes one integer.
RECURSIVE Evaluate(_, _)
Evaluate(e, env) ==
  CASE e.k = "int" -> e
    [] e.k = "sym" -> IF e.id \in DOMAIN env THEN DimInt(env[e.id]) ELSE e
    [] OTHER ->
         LET l == Evaluate(e.l, env)
             r == Evaluate(e.r, env)
         IN  IF l.k = "int" /\ r.k = "int"
               THEN DimInt(IF e.k = "add" THEN l.v + r.v ELSE l.v * r.v)
             ELSE [k |-> e.k, l |-> l, r |-> r]

\* The types of the table: bits of a width, arrays of a size, tuples.
DimBits(n) == [k |-> "bits", n |-> n, ms |-> <<>>]
DimArray(elem, n) == [k |-> "array", n |-> n, ms |-> <<elem>>]
DimTuple(ms) == [k |-> "tuple", n |-> DimInt(Len(ms)), ms |-> ms]

\* The type table of the study; node 8 has no entry.
DimTypeInfo ==
  (1 :> DimBits(DimInt(8)))
  @@ (2 :> DimBits(DimSym("N")))
  @@ (3 :> DimArray(DimBits(DimSym("N")), DimSym("M")))
  @@ (4 :> DimBits(DimAdd(DimSym("N"), DimInt(1))))
  @@ (5 :> DimTuple(<<DimBits(DimMul(DimSym("N"), DimSym("M"))), DimBits(DimInt(1))>>))
  @@ (6 :> DimTuple(<<>>))
  @@ (7 :> DimArray(DimBits(DimInt(4)), DimAdd(DimSym("M"), DimSym("M"))))
DimNodes == 1..8

\* The bindings symbolic_binding_map_ can hold: values for some of N and M.
DimValues == {1, 2}
DimBindings ==
  UNION {[ids -> DimValues] : ids \in SUBSET {"N", "M"}}

\* ConcreteType::MapSize: the dimensions of a type in the order they are
\* handed to the function, and the type rebuilt from the function's results.
RECURSIVE DimsOf(_)
DimsOf(t) ==
  CASE t.k = "bits" -> <<t.n>>
    [] t.k = "array" -> DimsOf(t.ms[1]) \o <<t.n>>
    [] OTHER -> Flatten([i \in 1..Len(t.ms) |-> DimsOf(t.ms[i])])

RECURSIVE DimsBefore(_, _)
DimsBefore(ms, i) == IF i = 1 THEN 0 ELSE DimsBefore(ms, i - 1) + Len(DimsOf(ms[i - 1]))

RECURSIVE WithDims(_, _)
WithDims(t, dims) ==
  CASE t.k = "bits" -> [t EXCEPT !.n = dims[1]]
    [] t.k = "array" ->
         [t EXCEPT !.ms = <<WithDims(t.ms[1], SubSeq(dims, 1, Len(dims) - 1))>>,
                   !.n = dims[Len(dims)]]
    [] OTHER ->
         [t EXCEPT !.ms = [i \in 1..Len(t.ms) |->
                             WithDims(t.ms[i],
                                      SubSeq(dims, DimsBefore(t.ms, i) + 1,
                                             DimsBefore(t.ms, i) + Len(DimsOf(t.ms[i]))))]]

InitResolve ==
  /\ mg = MgIdle
  /\ cv = CvIdle
  /\ zp = ZpIdle
  /\ rd \in [phase : {"call"}, node : DimNodes]
  /\ cur = [fn |-> 1, emit_positions |-> FALSE]
  /\ symbolic_binding_map \in DimBindings
  /\ package = EmptyPackage
  /\ Constructed

rd_others ==
  <<mg, cv, zp, cur, node_to_ir, ops, last_expression, function_builder,
    constant_deps, symbolic_binding_map, package, res>>

\* ResolveType on a node without a type: ConversionErrorStatus, an Internal error.
ResolveTypeMissing ==
  /\ rd.phase = "call"
  /\ rd.node \notin DOMAIN DimTypeInfo
  /\ rd' = [phase |-> "done", node |-> rd.node, status |-> "Internal"]
  /\ UNCHANGED rd_others

\* ResolveType on a node with a type: MapSize starts on its dimensions.
ResolveTypeMapSize ==
  /\ rd.phase = "call"
  /\ rd.node \in DOMAIN DimTypeInfo
  /\ rd' = [phase |-> "dims", node |-> rd.node, dims |-> DimsOf(DimTypeInfo[rd.node]),
            i |-> 1, iteration |-> 0]
  /\ UNCHANGED rd_others

\* One iteration of the loop of ResolveDim on the dimension at hand;
\* iteration is the parity of the number of iterations so far.
ResolveDimIterate ==
  /\ rd.phase = "dims"
  /\ rd.i <= Len(rd.dims)
  /\ HoldsParametric(rd.dims[rd.i])
  /\ rd' = [rd EXCEPT !.dims[rd.i] = Evaluate(@, symbolic_binding_map),
                      !.iteration = 1 - @]
  /\ UNCHANGED rd_others

\* ResolveDim returns the dimension: the loop's condition is false.
ResolveDimReturn ==
  /\ rd.phase = "dims"
  /\ rd.i <= Len(rd.dims)
  /\ ~HoldsParametric(rd.dims[rd.i])
  /\ rd' = [rd EXCEPT !.i = @ + 1, !.iteration = 0]
  /\ UNCHANGED rd_others

\* MapSize has handed every dimension to ResolveDim: ResolveType returns.
ResolveTypeReturn ==
  /\ rd.phase = "dims"
  /\ rd.i > Len(rd.dims)
  /\ rd' = [phase |-> "done", node |-> rd.node, status |-> "OK",
            type |-> WithDims(DimTypeInfo[rd.node], rd.dims)]
  /\ UNCHANGED rd_others

NextResolve ==
  \/ ResolveTypeMissing
  \/ ResolveTypeMapSize
  \/ ResolveDimIterate
  \/ ResolveDimReturn
  \/ ResolveTypeReturn

SpecResolve == InitResolve /\ [][NextResolve]_vars

\* The call runs: a step is taken whenever one is possible.
SpecResolveLive == SpecResolve /\ WF_vars(NextResolve)

(***************************************************************************)
(* C26: ResolveDim and ResolveType.                                        *)
(***************************************************************************)

\* Every dimension of the type is an integer.
RECURSIVE IsGround(_)
IsGround(t) ==
  /\ t.n.k = "int"
  /\ \A i \in 1..Len(t.ms) : IsGround(t.ms[i])

\* C26: every ResolveType call returns: with an Internal error when the node
\* has no entry in the type table, and otherwise with a type whose dimensions
\* are all integers.
C26_Resolves ==
  <>(/\ rd.phase = "done"
     /\ rd.status = "Internal" <=> rd.node \notin DOMAIN DimTypeInfo
     /\ rd.status = "OK" => IsGround(rd.type))

\* What holds of the calls that return: the error exactly for a node without
\* a type, and a ground type otherwise.
C26_WhenReturned ==
  rd.phase = "done" =>
    /\ rd.status = "Internal" <=> rd.node \notin DOMAIN DimTypeInfo
    /\ rd.status = "OK" => IsGround(rd.type)

\* ResolveDim is in its loop on a dimension that an iteration leaves as it is.
C26_Spins ==
  /\ rd.phase = "dims"
  /\ rd.i <= Len(rd.dims)
  /\ HoldsParametric(rd.dims[rd.i])
  /\ Evaluate(rd.dims[rd.i], symbolic_binding_map) = rd.dims[rd.i]
  /\ rd.iteration = 1

(***************************************************************************)
(* C27: what HandleMatch has done when it returns Unimplemented.           *)
(***************************************************************************)

\* The match has no arms, or the first pattern of its last arm is refutable.
RejectedAtEntry(node) ==
  LET arms == Ast[node].arms
  IN  arms = <<>> \/ ~IsIrrefutable(Ast[arms[Len(arms)]].patterns[1])

\* The nodes the visit callback was invoked on by the handler of r.node.
CallbackVisits(r) ==
  IF r.call = "Visit" THEN SubSeq(r.visits, 2, Len(r.visits)) ELSE r.visits

\* C27: HandleMatch rejects a match without arms, or whose last arm starts
\* with a refutable pattern, before it lowers anything: Unimplemented, the
\* environment and the IR nodes as before, no visit.  Every other
\* Unimplemented comes after the visit of the matched expression; the one
\* for several patterns in the default arm leaves the environment and the IR
\* nodes as that visit left them.
C27_Unimplemented ==
  [][(res'.call \in {"Handle", "Visit"} /\ Ast[res'.node].kind = "Match") =>
       /\ RejectedAtEntry(res'.node) =>
            /\ res'.status = "Unimplemented"
            /\ node_to_ir' = node_to_ir
            /\ ops' = ops
            /\ CallbackVisits(res') = <<>>
       /\ (res'.status = "Unimplemented" /\ ~RejectedAtEntry(res'.node)) =>
            /\ CallbackVisits(res') # <<>>
            /\ CallbackVisits(res')[1] = Ast[res'.node].matched
            /\ MultiPatternDefault(res'.node) =>
                 /\ node_to_ir' = Visit(Ctx0, Ast[res'.node].matched).env
                 /\ ops' = Visit(Ctx0, Ast[res'.node].matched).ops]_vars

\* C27 where it applies: HandleMatch has returned Unimplemented at its entry,
\* with the parameter bound, and has made no visit.
C27_Witness ==
  /\ Handled(res, "Match")
  /\ res.status = "Unimplemented"
  /\ RejectedAtEntry(res.node)
  /\ Ast[res.node].arms # <<>>
  /\ CallbackVisits(res) = <<>>
  /\ ops # <<>>
  /\ Ast[res.node].matched \notin DOMAIN node_to_ir

\* C27 as stated: whenever HandleMatch returns Unimplemented the environment
\* and the IR nodes are as before the call and no visit was made.
C27_AsStated ==
  [][(res'.call \in {"Handle", "Visit"} /\ Ast[res'.node].kind = "Match"
        /\ res'.status = "Unimplemented") =>
       /\ node_to_ir' = node_to_ir
       /\ ops' = ops
       /\ CallbackVisits(res') = <<>>]_vars

(***************************************************************************)
(* C28: the parameter type of the wrapper a builtin map is given.          *)
(***************************************************************************)

\* The function the Map node of the lowered call site n applies.
MappedFunction(n) == package[ops[node_to_ir[n].value].imm[1]]

\* C28: for every lowered map of clz or ctz, the wrapper the Map node applies
\* takes one parameter of the element type of the call site's array.
C28_WrapperParam ==
  \A n \in LoweredMaps :
    IsBuiltinMap(n) =>
      MappedFunction(n).param_types = <<TypeInfo[Ast[n].args[1]].ms[1]>>

(***************************************************************************)
(* ZipTypes (xls/dslx/type_system/zip_types.cc) under study (SpecZip): one *)
(* ZipTypes call on two types.  Every step is one callback or one          *)
(* recursive ZipTypes call; the callbacks answer with any status.          *)
(***************************************************************************)

\* Types: the kind, a size, the contained types, and a function's return type.
ZType(k, n, ms, ret) == [k |-> k, n |-> n, ms |-> ms, ret |-> ret]
ZBits(n) == ZType("bits", n, <<>>, <<>>)
ZEnum == ZType("enum", 8, <<>>, <<>>)
ZToken == ZType("token", 0, <<>>, <<>>)
ZTuple(ms) == ZType("tuple", Len(ms), ms, <<>>)
ZStruct(ms) == ZType("struct", Len(ms), ms, <<>>)
ZArray(elem, n) == ZType("array", n, <<elem>>, <<>>)
ZChannel(payload) == ZType("channel", 0, <<payload>>, <<>>)
ZFunction(params, ret) == ZType("function", Len(params), params, <<ret>>)
ZMeta(wrapped) == ZType("meta", 0, <<wrapped>>, <<>>)

\* The types ZipTypes is called on.
ZipSampleTypes ==
  {ZBits(8), ZBits(4), ZEnum, ZToken,
   ZTuple(<<ZBits(8), ZBits(4)>>), ZTuple(<<ZBits(8)>>), ZTuple(<<ZBits(8), ZBits(8)>>),
   ZStruct(<<ZBits(8), ZBits(4)>>), ZStruct(<<ZBits(8)>>),
   ZArray(ZBits(8), 3), ZArray(ZBits(4), 3), ZArray(ZBits(8), 2),
   ZChannel(ZBits(8)), ZMeta(ZBits(8)), ZMeta(ZEnum),
   ZFunction(<<ZBits(8), ZBits(4)>>, ZBits(8)), ZFunction(<<ZBits(8)>>, ZBits(8)),
   ZFunction(<<>>, ZBits(4)),
   ZTuple(<<ZArray(ZBits(8), 3), ZTuple(<<ZBits(8)>>)>>),
   ZTuple(<<ZArray(ZBits(8), 3), ZTuple(<<ZEnum>>)>>)}

\* What a read past the end of a vector of types can be taken for.
GarbageTypes == {ZBits(8), ZTuple(<<ZBits(8)>>)}

\* The statuses a callback can return.
CallbackStatuses == {"OK", "InvalidArgument", "Internal"}

\* Type::CompatibleWith on a non-aggregate lhs.
CompatibleWith(lhs, rhs) == lhs = rhs

\* The handlers of ZipTypeVisitor that call HandleNonAggregate.
IsNonAggregate(t) == t.k \in {"enum", "bits", "token"}

\* The dynamic_cast of rhs_ to the type of lhs succeeds, and for tuples and
\* structs the sizes are equal.
StructurallyCompatible(lhs, rhs) ==
  /\ lhs.k = rhs.k
  /\ lhs.k \in {"tuple", "struct"} => Len(lhs.ms) = Len(rhs.ms)

\* The number of recursive ZipTypes calls the handler of lhs makes.
NumChildren(lhs) == Len(lhs.ms) + Len(lhs.ret)

\* The i-th recursive call reads a parameter rhs does not have.
OutOfRange(lhs, rhs, i) == lhs.k = "function" /\ i <= Len(lhs.ms) /\ i > Len(rhs.ms)

\* The types of the i-th recursive ZipTypes call of the handler of lhs.
ChildPair(lhs, rhs, i) ==
  IF i <= Len(lhs.ms) THEN <<lhs.ms[i], rhs.ms[i]>> ELSE <<lhs.ret[1], rhs.ret[1]>>

\* A ZipTypes call that has not yet called a callback has i = 0; one whose
\* handler has called NoteAggregateStart makes its i-th recursive call next.
ZipFrame(lhs, rhs) == [lhs |-> lhs, rhs |-> rhs, i |-> 0]

InitZip ==
  /\ mg = MgIdle
  /\ cv = CvIdle
  /\ rd = RdIdle
  /\ zp \in {[phase |-> "run", lhs |-> lhs, rhs |-> rhs,
              stack |-> <<ZipFrame(lhs, rhs)>>, log |-> <<>>, ret |-> "OK"] :
             lhs \in ZipSampleTypes, rhs \in ZipSampleTypes}
  /\ EngineIdle

zp_others ==
  <<mg, cv, rd, cur, node_to_ir, ops, last_expression, function_builder,
    constant_deps, symbolic_binding_map, package, res>>

ZipTop == zp.stack[Len(zp.stack)]

\* The callback is called on the types of the running ZipTypes call and
\* returns the status.
Callback(z, cb, status) ==
  [z EXCEPT !.log = Append(@, [cb |-> cb, lhs |-> z.stack[Len(z.stack)].lhs,
                               rhs |-> z.stack[Len(z.stack)].rhs, status |-> status])]

\* The running ZipTypes call returns OK to its caller, which goes on to its
\* next recursive call; the outermost call returns OK.
ReturnOk(z) ==
  IF Len(z.stack) = 1 THEN [z EXCEPT !.phase = "done", !.stack = <<>>, !.ret = "OK"]
  ELSE [z EXCEPT !.stack = [SubSeq(@, 1, Len(@) - 1)
                              EXCEPT ![Len(z.stack) - 1].i = @ + 1]]

AfterCallbackContinue(z, status, next) == next

\* XLS_RETURN_IF_ERROR / return on the status of a callback: an error is
\* returned through every caller, up to the caller of the outermost ZipTypes.
AfterCallback(z, status, next) ==
  IF status # "OK" THEN [z EXCEPT !.phase = "done", !.stack = <<>>, !.ret = status]
  ELSE next

\* HandleNonAggregate.
ZipNonAggregate(status) ==
  /\ zp.phase = "run"
  /\ ZipTop.i = 0
  /\ IsNonAggregate(ZipTop.lhs)
  /\ \E z \in {Callback(zp, IF CompatibleWith(ZipTop.lhs, ZipTop.rhs)
                              THEN "NoteMatchedLeafType" ELSE "NoteTypeMismatch",
                        status)} :
       zp' = AfterCallback(z, status, ReturnOk(z))
  /\ UNCHANGED zp_others

\* The handler of an aggregate whose rhs is of another kind or, for tuples
\* and structs, of another size.
ZipMismatch(status) ==
  /\ zp.phase = "run"
  /\ ZipTop.i = 0
  /\ ~IsNonAggregate(ZipTop.lhs)
  /\ ~StructurallyCompatible(ZipTop.lhs, ZipTop.rhs)
  /\ \E z \in {Callback(zp, "NoteTypeMismatch", status)} :
       zp' = AfterCallback(z, status, ReturnOk(z))
  /\ UNCHANGED zp_others

\* The handler of an aggregate calls NoteAggregateStart.
ZipAggregateStart(status) ==
  /\ zp.phase = "run"
  /\ ZipTop.i = 0
  /\ ~IsNonAggregate(ZipTop.lhs)
  /\ StructurallyCompatible(ZipTop.lhs, ZipTop.rhs)
  /\ \E z \in {Callback(zp, "NoteAggregateStart", status)} :
       zp' = AfterCallback(z, status, [z EXCEPT !.stack[Len(z.stack)].i = 1])
  /\ UNCHANGED zp_others

\* The handler of an aggregate makes its next recursive ZipTypes call.
ZipChild ==
  /\ zp.phase = "run"
  /\ ZipTop.i \in 1..NumChildren(ZipTop.lhs)
  /\ ~OutOfRange(ZipTop.lhs, ZipTop.rhs, ZipTop.i)
  /\ zp' = [zp EXCEPT !.stack = Append(@, ZipFrame(ChildPair(ZipTop.lhs, ZipTop.rhs, ZipTop.i)[1],
                                                   ChildPair(ZipTop.lhs, ZipTop.rhs, ZipTop.i)[2]))]
  /\ UNCHANGED zp_others

\* HandleFunction reads rhs->GetParams()[i] where rhs has no such parameter:
\* the process ends, or the call goes on with whatever the read yields.
ZipChildOutOfRange ==
  /\ zp.phase = "run"
  /\ ZipTop.i \in 1..NumChildren(ZipTop.lhs)
  /\ OutOfRange(ZipTop.lhs, ZipTop.rhs, ZipTop.i)
  /\ \/ zp' = [zp EXCEPT !.phase = "crashed"]
     \/ \E g \in GarbageTypes :
          zp' = [zp EXCEPT !.stack = Append(@, ZipFrame(ZipTop.lhs.ms[ZipTop.i], g))]
  /\ UNCHANGED zp_others

\* The handler of an aggregate calls NoteAggregateEnd and returns its status.
ZipAggregateEnd(status) ==
  /\ zp.phase = "run"
  /\ ZipTop.i > NumChildren(ZipTop.lhs)
  /\ \E z \in {Callback(zp, "NoteAggregateEnd", status)} :
       zp' = AfterCallback(z, status, ReturnOk(z))
  /\ UNCHANGED zp_others

NextZip ==
  \/ \E status \in CallbackStatuses : ZipNonAggregate(status)
  \/ \E status \in CallbackStatuses : ZipMismatch(status)
  \/ \E status \in CallbackStatuses : ZipAggregateStart(status)
  \/ ZipChild
  \/ ZipChildOutOfRange
  \/ \E status \in CallbackStatuses : ZipAggregateEnd(status)

SpecZip == InitZip /\ [][NextZip]_vars

(***************************************************************************)
(* C29 and C30: the callbacks of a ZipTypes call.                          *)
(***************************************************************************)

\* Every callback of the call so far has returned OK.
AllCallbacksOk == \A i \in 1..Len(zp.log) : zp.log[i].status = "OK"

\* The aggregates started and not yet ended after the callbacks of log, and
\* whether every NoteAggregateEnd so far was for the aggregate started last.
RECURSIVE Nesting(_)
Nesting(log) ==
  IF log = <<>> THEN [ok |-> TRUE, open |-> <<>>]
  ELSE LET p == Nesting(SubSeq(log, 1, Len(log) - 1))
           e == log[Len(log)]
       IN  CASE e.cb = "NoteAggregateStart" ->
                  [ok |-> p.ok, open |-> Append(p.open, <<e.lhs, e.rhs>>)]
             [] e.cb = "NoteAggregateEnd" ->
                  [ok |-> /\ p.ok
                          /\ p.open # <<>>
                          /\ p.open[Len(p.open)] = <<e.lhs, e.rhs>>,
                   open |-> IF p.open = <<>> THEN <<>>
                            ELSE SubSeq(p.open, 1, Len(p.open) - 1)]
             [] OTHER -> p

\* The callbacks of a traversal of lhs and rhs in which every callback
\* returns OK, as C29 describes them: the children left to right between the
\* Start and the End of their parent.
RECURSIVE ZipCallbacks(_, _)
ZipCallbacks(lhs, rhs) ==
  IF IsNonAggregate(lhs)
    THEN <<[cb |-> IF CompatibleWith(lhs, rhs) THEN "NoteMatchedLeafType"
                   ELSE "NoteTypeMismatch", lhs |-> lhs, rhs |-> rhs]>>
  ELSE IF ~StructurallyCompatible(lhs, rhs)
    THEN <<[cb |-> "NoteTypeMismatch", lhs |-> lhs, rhs |-> rhs]>>
  ELSE <<[cb |-> "NoteAggregateStart", lhs |-> lhs, rhs |-> rhs]>>
       \o Flatten([i \in 1..Len(lhs.ms) |->
                     IF i <= Len(rhs.ms) THEN ZipCallbacks(lhs.ms[i], rhs.ms[i])
                     ELSE <<>>])
       \o (IF lhs.ret = <<>> THEN <<>> ELSE ZipCallbacks(lhs.ret[1], rhs.ret[1]))
       \o <<[cb |-> "NoteAggregateEnd", lhs |-> lhs, rhs |-> rhs]>>

\* The callbacks of the call so far, without the statuses.
ZipLog == [i \in 1..Len(zp.log) |->
             [cb |-> zp.log[i].cb, lhs |-> zp.log[i].lhs, rhs |-> zp.log[i].rhs]]

\* C29: when a ZipTypes call in which every callback returned OK is over,
\* every NoteAggregateStart has been followed by the NoteAggregateEnd of the
\* same pair, the Ends in the reverse order of the Starts, the callbacks of
\* the children in between and left to right; types of different kinds, and
\* tuples or structs of different sizes, have had one NoteTypeMismatch and
\* nothing else.
C29_Balanced ==
  (zp.phase \in {"done", "crashed"} /\ AllCallbacksOk) =>
    /\ Nesting(zp.log).ok
    /\ Nesting(zp.log).open = <<>>
    /\ ZipLog = ZipCallbacks(zp.lhs, zp.rhs)
    /\ (zp.lhs.k # zp.rhs.k \/ ~StructurallyCompatible(zp.lhs, zp.rhs)) =>
         /\ Len(zp.log) = 1
         /\ zp.log[1].cb = "NoteTypeMismatch"

\* No function type of the two types has more parameters than the function
\* type it is zipped with.
RECURSIVE ParamsInRange(_, _)
ParamsInRange(lhs, rhs) ==
  \/ IsNonAggregate(lhs)
  \/ ~StructurallyCompatible(lhs, rhs)
  \/ /\ Len(lhs.ms) <= Len(rhs.ms)
     /\ \A i \in 1..Len(lhs.ms) : ParamsInRange(lhs.ms[i], rhs.ms[i])
     /\ lhs.ret # <<>> => ParamsInRange(lhs.ret[1], rhs.ret[1])

\* What C29 states holds of the calls that read no parameter out of range.
C29_BalancedInRange == ParamsInRange(zp.lhs, zp.rhs) => C29_Balanced

\* C30: only the last callback of a ZipTypes call can have returned an
\* error; when one has, the call is over, no callback follows, the aggregates
\* started are left without their End, and the call returns that error; the
\* call returns OK only when every callback returned OK.
C30_FirstError ==
  /\ \A i \in 1..(Len(zp.log) - 1) : zp.log[i].status = "OK"
  /\ ~AllCallbacksOk =>
       /\ zp.phase = "done"
       /\ zp.ret = zp.log[Len(zp.log)].status
  /\ (zp.phase = "done" /\ zp.ret = "OK") => AllCallbacksOk
  /\ (zp.phase = "done" /\ zp.ret # "OK") =>
       /\ zp.log # <<>>
       /\ zp.ret = zp.log[Len(zp.log)].status

\* C30 where it applies: a callback of a child has returned an error after
\* two aggregates were started; the call has returned that error and neither
\* aggregate has had its End.
C30_Witness ==
  /\ zp.phase = "done"
  /\ zp.ret = "Internal"
  /\ Len(zp.log) >= 3
  /\ zp.log[Len(zp.log)].status = "Internal"
  /\ zp.log[Len(zp.log)].cb = "NoteMatchedLeafType"
  /\ Len(Nesting(zp.log).open) = 2

====
